---------------------------- MODULE Spec2Model ----------------------------
(***************************************************************************)
(* A model of the Web Publication Manifest conversion: the diagnostics     *)
(* logger, the canonicalization of a raw manifest, and the construction of *)
(* the WebPublicationManifest object with its Contributor, LinkedResource  *)
(* and LocalizableString builders.                                         *)
(*                                                                         *)
(* JavaScript values are tagged records:                                   *)
(*   [t |-> "undef"], [t |-> "null"], [t |-> "bool", b |-> b],             *)
(*   [t |-> "str", s |-> s], [t |-> "num", n |-> n],                       *)
(*   [t |-> "arr", a |-> <<...>>],                                         *)
(*   [t |-> "obj", k |-> <<keys in insertion order>>, v |-> key -> value]  *)
(* Log messages are records [text, arg]: the fixed part of the template    *)
(* and the value interpolated into it.                                     *)
(***************************************************************************)
EXTENDS Integers, Sequences, FiniteSets, TLC

VARIABLES pc, input, logger, canonical_manifest, wpm, result,
          console,    \* what console.warn has printed
          pending,    \* the URLs whose fetch has not come back yet
          lookups     \* the model's fields with two underscores, for the derived links

vars == <<pc, input, logger, canonical_manifest, wpm, result, console, pending, lookups>>

(***************************************************************************)
(* JavaScript values                                                       *)
(***************************************************************************)
U == [t |-> "undef"]

Null == [t |-> "null"]

Bool(b) == [t |-> "bool", b |-> b]

Str(s) == [t |-> "str", s |-> s]

Num(n) == [t |-> "num", n |-> n]

Arr(s) == [t |-> "arr", a |-> s]

Obj(keys, f) == [t |-> "obj", k |-> keys, v |-> f]

EmptyObj == Obj(<<>>, <<>>)

Range(s) == {s[i] : i \in 1..Len(s)}

\* JavaScript truthiness, as used by every `if (x)` and `x || y` of the code
Truthy(x) ==
    CASE x.t = "undef" -> FALSE
      [] x.t = "null"  -> FALSE
      [] x.t = "bool"  -> x.b
      [] x.t = "str"   -> x.s # ""
      [] x.t = "num"   -> x.n # 0
      [] OTHER         -> TRUE

\* x[key]: a property read on an object; on a string, number or array the
\* property names the code uses are not defined
Get(x, key) == IF x.t = "obj" /\ key \in DOMAIN x.v THEN x.v[key] ELSE U

\* o[key] = val on an object: a new key is appended to the insertion order
SetProp(o, key, val) ==
    IF key \in DOMAIN o.v
    THEN [o EXCEPT !.v[key] = val]
    ELSE [o EXCEPT !.k = Append(@, key), !.v = (key :> val) @@ @]

\* x || undefined
OrUndefined(x) == IF Truthy(x) THEN x ELSE U

\* JSON.parse(JSON.stringify(x)): keys whose value is undefined are dropped
RECURSIVE JsonClone(_)
JsonClone(x) ==
    CASE x.t = "obj" ->
            LET keep == SelectSeq(x.k, LAMBDA key : x.v[key].t # "undef")
            IN  Obj(keep, [key \in Range(keep) |-> JsonClone(x.v[key])])
      [] x.t = "arr" -> Arr([i \in 1..Len(x.a) |-> JsonClone(x.a[i])])
      [] OTHER -> x

(***************************************************************************)
(* Strings the library functions classify.  Strings are atomic here, so    *)
(* url.parse, the BCP47 pattern, Date.parse and npt.parse are tables over  *)
(* the strings of the model.                                               *)
(***************************************************************************)
ManifestUrl == "https://x.test/m.json"

PageUrl == "https://x.test/index.html"

UrlRow(protocol, auth, hasPort, port, path) ==
    [protocol |-> protocol, auth |-> auth, hasPort |-> hasPort, port |-> port, path |-> path]

UrlStrings ==
    {"https://x.test/m.json", "https://x.test/index.html", "https://x.test/doc.html",
     "https://x.test/report.html", "https://x.test/nav.html",
     "https://x.test:80/doc.html", "ftp://x.test/doc.html", "https:doc.html",
     "https://doc.html/",
     "m.json", "index.html", "doc.html", "report.html", "nav.html"}

\* url.parse(address): protocol "" stands for null
url_parse(s) ==
    CASE s = "https://x.test/m.json"      -> UrlRow("https:", "x.test", FALSE, 0, "m.json")
      [] s = "https://x.test/index.html"  -> UrlRow("https:", "x.test", FALSE, 0, "index.html")
      [] s = "https://x.test/doc.html"    -> UrlRow("https:", "x.test", FALSE, 0, "doc.html")
      [] s = "https://x.test/report.html" -> UrlRow("https:", "x.test", FALSE, 0, "report.html")
      [] s = "https://x.test/nav.html"    -> UrlRow("https:", "x.test", FALSE, 0, "nav.html")
      [] s = "https://x.test:80/doc.html" -> UrlRow("https:", "x.test:80", TRUE, 80, "doc.html")
      [] s = "ftp://x.test/doc.html"      -> UrlRow("ftp:", "x.test", FALSE, 0, "doc.html")
      [] s = "https:doc.html"             -> UrlRow("https:", "", FALSE, 0, "doc.html")
      [] s = "https://doc.html/"          -> UrlRow("https:", "doc.html", FALSE, 0, "")
      [] OTHER                            -> UrlRow("", "", FALSE, 0, s)

url_format(parts) == CHOOSE s \in UrlStrings : url_parse(s) = parts

\* url.resolve(from, to) on two strings.  A reference with a scheme and a
\* host is kept.  A reference with a scheme and no host (https:doc.html) is
\* a relative one when the scheme is the one of the base; under another
\* scheme, one of those written with two slashes, the first segment of its
\* path becomes the host and the path is "/".  A relative reference
\* replaces the last segment of the base's path.
url_resolve(base, rel) ==
    LET b == url_parse(base)
        r == url_parse(rel)
    IN  IF r.protocol # "" /\ r.auth # "" THEN rel
        ELSE IF r.protocol # "" /\ r.protocol # b.protocol
        THEN IF r.protocol \in {"http:", "https:", "ftp:", "gopher:", "ws:", "wss:"}
             THEN url_format(UrlRow(r.protocol, r.path, FALSE, 0, ""))
             ELSE rel
        ELSE url_format([b EXCEPT !.path = r.path])

\* validUrl.isWebUri(address) !== undefined
isWebUri(s) == url_parse(s).protocol \in {"http:", "https:"} /\ url_parse(s).auth # ""

ValidLangTags == {"en", "fr", "en-US"}

\* bcppattern.test(x): the argument is converted to a string first, and a
\* one-element array converts to its element
RECURSIVE bcppattern_test(_)
bcppattern_test(x) ==
    CASE x.t = "str" -> x.s \in ValidLangTags
      [] x.t = "arr" -> Len(x.a) = 1 /\ bcppattern_test(x.a[1])
      [] OTHER -> FALSE

(***************************************************************************)
(* Logger (utils.js)                                                       *)
(***************************************************************************)
Msg(text, arg) == [text |-> text, arg |-> arg]

NewLogger == [warnings |-> <<>>, errors |-> <<>>]

\* A mutant of Logger_assert: the two levels select each other's sequence
Logger_assert_swapped(log, condition, message, level) ==
    [logger |-> IF Truthy(condition) THEN log
                ELSE CASE level = "error"   -> [log EXCEPT !.warnings = Append(@, message)]
                       [] level = "warning" -> [log EXCEPT !.errors = Append(@, message)]
                       [] OTHER             -> log,
     ret |-> condition]

\* Logger.assert(condition, message, level): the logger after the call and
\* the value returned
Logger_assert(log, condition, message, level) ==
    [logger |-> IF Truthy(condition) THEN log
                ELSE CASE level = "error"   -> [log EXCEPT !.errors = Append(@, message)]
                       [] level = "warning" -> [log EXCEPT !.warnings = Append(@, message)]
                       [] OTHER             -> log,
     ret |-> condition]

\* logger.assert(false, message, level), the result not used
LogFalse(log, message, level) == Logger_assert(log, Bool(FALSE), message, level).logger

(***************************************************************************)
(* Profile (profiles.js)                                                   *)
(***************************************************************************)
misc_arrays_properties == <<"type", "name", "rel">>

a11y_properties ==
    <<"accessMode", "accessModeSufficient", "accessibilityAPI",
      "accessibilityControl", "accessibilityFeature", "accessibilityHazard">>

creator_properties ==
    <<"artist", "author", "contributor", "creator", "editor", "illustrator",
      "inker", "letterer", "penciler", "publisher", "readBy", "translator">>

resource_categorization_properties == <<"readingOrder", "resources", "links">>

core_profile ==
    [array_values        |-> misc_arrays_properties \o a11y_properties
                              \o creator_properties \o resource_categorization_properties,
     entity_values       |-> creator_properties,
     link_values         |-> resource_categorization_properties,
     local_string_values |-> <<"description", "name", "accessibilitySummary">>,
     url_values          |-> <<"url", "id">>]

(***************************************************************************)
(* The DOM of the primary entry page, as far as canonicalize reads it: the *)
(* document's URL and its <title>, with the lang attributes from the title *)
(* up to the root.  No document is U.                                      *)
(***************************************************************************)
Document(docUrl, title) == [t |-> "doc", URL |-> docUrl, title |-> title]

Title(text, langs) == [t |-> "title", text |-> text, langs |-> langs]

\* get_attr(start, term): the first non-empty value going up the tree, or ''
RECURSIVE get_attr(_)
get_attr(langs) ==
    IF langs = <<>> THEN ""
    ELSE IF Head(langs) # "" THEN Head(langs) ELSE get_attr(Tail(langs))

(***************************************************************************)
(* canonicalize (CanonicalManifest.js)                                     *)
(***************************************************************************)
\* Step 5 on one object: a truthy value of an array-valued term that is no
\* array becomes a one-element array.  On anything but an object the terms
\* read as undefined and nothing changes.
convert_to_array(obj, profile) ==
    IF obj.t # "obj" THEN obj
    ELSE [obj EXCEPT !.v = [key \in DOMAIN obj.v |->
            IF key \in Range(profile.array_values) /\ Truthy(obj.v[key])
               /\ obj.v[key].t # "arr"
            THEN Arr(<<obj.v[key]>>)
            ELSE obj.v[key]]]

\* Step 6 as it would be if it wrapped whatever it is given
entity_object_rewrap(obj) ==
    Obj(<<"type", "name">>, ("type" :> Arr(<<Str("Person")>>)) @@ ("name" :> Arr(<<obj>>)))

\* Step 6 on one element: a string becomes a Person with that name
entity_object(obj) ==
    IF obj.t = "str"
    THEN Obj(<<"type", "name">>, ("type" :> Arr(<<Str("Person")>>)) @@ ("name" :> Arr(<<obj>>)))
    ELSE obj

\* Step 7 on one element: a string becomes a LinkedResource with that url
link_object(obj) ==
    IF obj.t = "str"
    THEN Obj(<<"type", "url">>, ("type" :> Arr(<<Str("LinkedResource")>>)) @@ ("url" :> obj))
    ELSE obj

\* A mutant of localize_string: the default language is never attached
localize_string_nolang(str, language) ==
    IF str.t = "str" THEN Obj(<<"value">>, ("value" :> str)) ELSE str

\* localize_string(str), with the default language found in steps 2 and 3
localize_string(str, language) ==
    IF str.t = "str"
    THEN IF language # Str("")
         THEN Obj(<<"value", "language">>, ("value" :> str) @@ ("language" :> language))
         ELSE Obj(<<"value">>, ("value" :> str))
    ELSE str

\* Step 8 on one object
localize_text_values(obj, profile, language) ==
    IF obj.t # "obj" THEN obj
    ELSE [obj EXCEPT !.v = [key \in DOMAIN obj.v |->
            IF key \in Range(profile.local_string_values) /\ Truthy(obj.v[key])
            THEN IF obj.v[key].t = "arr"
                 THEN Arr([i \in 1..Len(obj.v[key].a) |-> localize_string(obj.v[key].a[i], language)])
                 ELSE localize_string(obj.v[key], language)
            ELSE obj.v[key]]]

\* url.resolve(base, url_value) throws a TypeError unless url_value is a string
ResolveThrows(val) ==
    IF val.t = "arr" THEN \E i \in 1..Len(val.a) : val.a[i].t # "str" ELSE val.t # "str"

Resolved(val, base) ==
    IF val.t = "arr"
    THEN Arr([i \in 1..Len(val.a) |-> Str(url_resolve(base, val.a[i].s))])
    ELSE Str(url_resolve(base, val.s))

\* Step 9 on one object, term after term of profile.url_values: the object
\* as far as it was rewritten, and whether url.resolve threw
RECURSIVE absolute_urls_from(_, _, _, _)
absolute_urls_from(obj, props, i, base) ==
    IF i > Len(props) \/ obj.t # "obj" THEN [v |-> obj, thrown |-> FALSE]
    ELSE LET val == Get(obj, props[i])
         IN  IF ~Truthy(val) THEN absolute_urls_from(obj, props, i + 1, base)
             ELSE IF ResolveThrows(val) THEN [v |-> obj, thrown |-> TRUE]
             ELSE absolute_urls_from(SetProp(obj, props[i], Resolved(val, base)), props, i + 1, base)

absolute_urls(obj, profile, base) == absolute_urls_from(obj, profile.url_values, 1, base)

\* The callback canonicalize_objects maps over the elements, by step
MapFunc(step, obj, profile, language, base) ==
    CASE step = "convert_to_array" -> [v |-> convert_to_array(obj, profile), thrown |-> FALSE]
      [] step = "entity"           -> [v |-> entity_object(obj), thrown |-> FALSE]
      [] step = "link"             -> [v |-> link_object(obj), thrown |-> FALSE]
      [] step = "localize"         -> [v |-> localize_text_values(obj, profile, language), thrown |-> FALSE]
      [] step = "absolute"         -> absolute_urls(obj, profile, base)

\* manifest[prop].map(func): the elements are rewritten in place one after
\* the other, so an exception leaves the earlier ones rewritten
RECURSIVE MapFrom(_, _, _, _, _, _)
MapFrom(seq, i, step, profile, language, base) ==
    IF i > Len(seq) THEN [v |-> seq, thrown |-> FALSE]
    ELSE LET rest(r) ==
                 IF r.thrown THEN [v |-> [seq EXCEPT ![i] = r.v], thrown |-> TRUE]
                 ELSE MapFrom([seq EXCEPT ![i] = r.v], i + 1, step, profile, language, base)
         IN  rest(MapFunc(step, seq[i], profile, language, base))

\* canonicalize_objects(array, func): st is [m: the manifest, logger]
RECURSIVE canonicalize_objects(_, _, _, _, _, _, _)
canonicalize_objects(st, props, i, step, profile, language, base) ==
    IF i > Len(props) THEN st
    ELSE LET prop == props[i]
             val == Get(st.m, prop)
             profile_error == Msg("may not have been categorized as array valued; profile error?", Str(prop))
             next == IF ~Truthy(val) THEN st
                     ELSE IF val.t # "arr"
                     THEN [st EXCEPT !.logger = LogFalse(@, profile_error, "error")]
                     ELSE LET mapped(r) ==
                                  [m |-> SetProp(st.m, prop, Arr(r.v)),
                                   logger |-> IF r.thrown
                                              THEN LogFalse(st.logger, profile_error, "error")
                                              ELSE st.logger]
                          IN  mapped(MapFrom(val.a, 1, step, profile, language, base))
             \* the forEach goes on with the manifest as this property left it
         IN  CHOOSE out \in {canonicalize_objects(after, props, i + 1, step, profile, language, base) :
                                after \in {next}} : TRUE

\* Step 1: the name is taken from the <title> of the primary entry page
title_backfill(manifest, document) ==
    IF ~Truthy(Get(manifest, "name")) /\ document # U /\ document.title # U
    THEN LET title_lang == get_attr(document.title.langs)
         IN  IF title_lang # ""
             THEN SetProp(manifest, "name",
                          Obj(<<"value", "language">>,
                              ("value" :> Str(document.title.text)) @@ ("language" :> Str(title_lang))))
             ELSE SetProp(manifest, "name", Str(document.title.text))
    ELSE manifest

\* Steps 2 and 3 as they would be without the defaults
default_lang_dir_none(manifest, lang, dir) == manifest

\* Steps 2 and 3: the defaults for inLanguage and inDirection
default_lang_dir(manifest, lang, dir) ==
    LET step_3(m) == IF Truthy(dir) /\ ~Truthy(Get(m, "inDirection"))
                     THEN SetProp(m, "inDirection", dir) ELSE m
    IN  step_3(IF Truthy(lang) /\ ~Truthy(Get(manifest, "inLanguage"))
               THEN SetProp(manifest, "inLanguage", lang) ELSE manifest)

\* Step 4 as it would be if the page were never taken as reading order
default_reading_order_none(manifest, document) == manifest

\* Step 4: the default reading order is the primary entry page
default_reading_order(manifest, document) ==
    IF ~Truthy(Get(manifest, "readingOrder")) /\ document # U
    THEN SetProp(manifest, "readingOrder",
                 Obj(<<"url", "type">>,
                     ("url" :> Str(document.URL)) @@ ("type" :> Str("LinkedResource"))))
    ELSE manifest

\* What canonicalize returns: the manifest, or nothing from the catch block
canonicalize_result(thrown, manifest) == IF thrown THEN U ELSE manifest

\* canonicalize(logger, manifest_orig, base, document, lang, dir, profile):
\* [ret: the value returned, logger, partial: the manifest as built when the
\* function ended, thrown: whether steps 1 to 9 raised to the top-level catch]
canonicalize(log, manifest_orig, base, document, lang, dir, profile) ==
    LET properties_with_objects == profile.entity_values \o profile.link_values
        \* steps 3 to 9, on the manifest as steps 1 and 2 left it
        from_step_3(m2) ==
            LET inLang == Get(m2, "inLanguage")
                bad_lang == Truthy(inLang) /\ ~bcppattern_test(inLang)
                language == IF Truthy(inLang) /\ ~bad_lang THEN inLang ELSE Str("")
                log3 == IF bad_lang
                        THEN LogFalse(log, Msg("is not a valid language tag", inLang), "warning")
                        ELSE log
                m3 == IF bad_lang THEN SetProp(m2, "inLanguage", U) ELSE m2
                m4 == default_reading_order(m3, document)
                s5a == [m |-> convert_to_array(m4, profile), logger |-> log3]
                s5 == canonicalize_objects(s5a, properties_with_objects, 1, "convert_to_array",
                                           profile, language, base)
                s6 == canonicalize_objects(s5, profile.entity_values, 1, "entity",
                                           profile, language, base)
                s7 == canonicalize_objects(s6, profile.link_values, 1, "link",
                                           profile, language, base)
                \* what the function ends with, step 9 being done
                step_9_done(s9) ==
                    [ret |-> canonicalize_result(FALSE, s9.m),
                     logger |-> s9.logger, partial |-> s9.m, thrown |-> FALSE]
                \* step 9 on its objects, after step 9 on the manifest itself
                step_9_objects(s8, top9) ==
                    IF top9.thrown
                    THEN [ret |-> canonicalize_result(TRUE, top9.v),
                          logger |-> LogFalse(s8.logger, Msg("TypeError", U), "error"),
                          partial |-> top9.v, thrown |-> TRUE]
                    ELSE step_9_done(
                             canonicalize_objects([s8 EXCEPT !.m = top9.v], properties_with_objects,
                                                  1, "absolute", profile, language, base))
                step_9(s8) == step_9_objects(s8, absolute_urls(s8.m, profile, base))
                step_8(s8a) ==
                    step_9(canonicalize_objects(s8a, properties_with_objects, 1, "localize",
                                                profile, language, base))
            IN  step_8([s7 EXCEPT !.m = localize_text_values(@, profile, language)])
    IN  IF manifest_orig = U
        THEN \* JSON.parse(JSON.stringify(undefined)) throws inside the try block
             [ret |-> U, logger |-> LogFalse(log, Msg("SyntaxError", U), "error"),
              partial |-> EmptyObj, thrown |-> TRUE]
        ELSE from_step_3(default_lang_dir(title_backfill(JsonClone(manifest_orig), document),
                                          lang, dir))

(***************************************************************************)
(* check_url (utils.js).  url.parse throws a TypeError on anything but a   *)
(* string, with or without a logger.                                       *)
(***************************************************************************)
\* [ret, logger, thrown]; has_logger is whether a logger was passed
check_url(address, log, has_logger) ==
    IF address.t # "str" THEN [ret |-> U, logger |-> log, thrown |-> TRUE]
    ELSE LET parsed == url_parse(address.s)
             fail(text) == IF has_logger
                           THEN [ret |-> Null, logger |-> LogFalse(log, Msg(text, address), "error"),
                                 thrown |-> FALSE]
                           ELSE [ret |-> U, logger |-> log, thrown |-> TRUE]
         IN  IF parsed.protocol = "" THEN fail("Invalid URL: no protocol")
             ELSE IF parsed.protocol \notin {"http:", "https:"} THEN fail("URL is not dereferencable")
             ELSE IF ~isWebUri(address.s) THEN fail("the URL isn't valid")
             ELSE IF parsed.hasPort /\ parsed.port <= 1024
             THEN IF has_logger
                  THEN [ret |-> address,
                        logger |-> LogFalse(log, Msg("Unsafe port number used in URL", address), "warning"),
                        thrown |-> FALSE]
                  ELSE [ret |-> U, logger |-> log, thrown |-> TRUE]
             ELSE [ret |-> address, logger |-> log, thrown |-> FALSE]

\* condClone(skippedKeys, source, target): the properties copied into the
\* target, as an object.  A number has no keys; strings never reach the
\* constructors (steps 6 and 7 replace them by objects).
condClone(skippedKeys, source) ==
    LET cloned_copy == JsonClone(source)
    IN  IF cloned_copy.t # "obj" THEN EmptyObj
        ELSE LET keep == SelectSeq(cloned_copy.k, LAMBDA key : key \notin skippedKeys)
             IN  Obj(keep, [key \in Range(keep) |-> cloned_copy.v[key]])

(***************************************************************************)
(* LocalizableString (WebPublicationManifest.js)                           *)
(***************************************************************************)
\* new LocalizableString(logger, obj): [o: the instance, logger]
LocalizableString(log, obj) ==
    LET has_value == Get(obj, "value") # U
        log1 == Logger_assert(log, Bool(has_value), Msg("String without value", U), "error").logger
        lang == Get(obj, "language")
        bad_lang == Truthy(lang) /\ ~bcppattern_test(lang)
        log2 == IF Truthy(lang)
                THEN Logger_assert(log1, Bool(~bad_lang), Msg("is not a valid language tag", lang), "warning").logger
                ELSE log1
    IN  [o |-> [t |-> "LocalizableString",
                value |-> Get(obj, "value"),
                language |-> IF bad_lang THEN U ELSE lang,
                invalid |-> ~has_value],
         logger |-> log2]

\* values.map(...) over the elements from i on: the instances and the logger
RECURSIVE LocalizableString_map(_, _, _, _)
LocalizableString_map(log, values, i, acc) ==
    IF i > Len(values) THEN [v |-> acc, logger |-> log]
    ELSE LET rest(r) == LocalizableString_map(r.logger, values, i + 1, Append(acc, r.o))
         IN  rest(LocalizableString(log, values[i]))

\* LocalizableString.initArray(logger, values): [ret, logger, thrown];
\* values.map throws a TypeError when values is no array
LocalizableString_initArray(log, values) ==
    IF values.t # "arr" THEN [ret |-> U, logger |-> log, thrown |-> TRUE]
    ELSE LET filtered(r) == [ret |-> Arr(SelectSeq(r.v, LAMBDA name : ~name.invalid)),
                             logger |-> r.logger, thrown |-> FALSE]
         IN  filtered(LocalizableString_map(log, values.a, 1, <<>>))

(***************************************************************************)
(* Contributor (WebPublicationManifest.js)                                 *)
(***************************************************************************)
\* this._type.includes(x) on an array or a string (the type strings of the
\* model contain one another only when equal); anything else has no
\* includes method
HasIncludes(type) == type.t \in {"arr", "str"}

Includes(type, x) ==
    IF type.t = "arr" THEN \E i \in 1..Len(type.a) : type.a[i] = Str(x)
    ELSE type = Str(x)

\* new Contributor(logger, obj, person_only): [o, logger, thrown]
Contributor(log, obj, person_only) ==
    LET has_name == Get(obj, "name") # U
        log1 == Logger_assert(log, Bool(has_name),
                              Msg("Invalid contributor: no name provided.", U), "error").logger
        type == Get(obj, "type")
        is_person == Includes(type, "Person")
        is_organization == Includes(type, "Organization")
        bad_type == has_name /\ Truthy(type) /\ ~is_organization /\ ~is_person
        not_person == has_name /\ Truthy(type) /\ ~bad_type /\ person_only /\ ~is_person
        url_value == Get(obj, "url")
        \* the constructor once this._name is set: names is [ret, logger, thrown]
        named(names) ==
            LET \* the two messages read this._name[0].value
                type_throws == has_name /\ Truthy(type)
                               /\ (~HasIncludes(type)
                                   \/ ((bad_type \/ not_person) /\ names.ret.a = <<>>))
                log2 == IF bad_type
                        THEN LogFalse(names.logger,
                                      Msg("Contributor must be an \"Organization\" or a \"Person\"",
                                          names.ret.a[1].value), "error")
                        ELSE IF not_person
                        THEN LogFalse(names.logger,
                                      Msg("Only a \"Person\" is acceptable in this position",
                                          names.ret.a[1].value), "error")
                        ELSE names.logger
                \* the instance once the url is checked
                built(checked) ==
                    IF checked.thrown THEN [o |-> U, logger |-> checked.logger, thrown |-> TRUE]
                    ELSE [o |-> [t |-> "Contributor",
                                 name |-> names.ret,
                                 type |-> IF ~has_name THEN U
                                          ELSE IF Truthy(type) THEN type ELSE Arr(<<Str("Person")>>),
                                 id |-> OrUndefined(Get(obj, "id")),
                                 url |-> IF Truthy(url_value) THEN url_value ELSE U,
                                 extra |-> condClone({"name", "id", "url", "type"}, obj),
                                 invalid |-> ~has_name \/ bad_type \/ not_person],
                          logger |-> checked.logger, thrown |-> FALSE]
            IN  IF names.thrown THEN [o |-> U, logger |-> names.logger, thrown |-> TRUE]
                ELSE IF type_throws THEN [o |-> U, logger |-> names.logger, thrown |-> TRUE]
                ELSE built(IF Truthy(url_value) THEN check_url(url_value, log2, TRUE)
                           ELSE [ret |-> U, logger |-> log2, thrown |-> FALSE])
    IN  named(IF has_name THEN LocalizableString_initArray(log1, Get(obj, "name"))
              ELSE [ret |-> U, logger |-> log1, thrown |-> FALSE])

\* objs.map(...) from element i on; stops at the first exception
RECURSIVE Contributor_map(_, _, _, _, _)
Contributor_map(log, objs, i, person_only, acc) ==
    IF i > Len(objs) THEN [v |-> acc, logger |-> log, thrown |-> FALSE]
    ELSE LET rest(r) ==
                 IF r.thrown THEN [v |-> acc, logger |-> r.logger, thrown |-> TRUE]
                 ELSE Contributor_map(r.logger, objs, i + 1, person_only, Append(acc, r.o))
         IN  rest(Contributor(log, objs[i], person_only))

\* A mutant of Contributor_initArray: nothing is filtered out
Contributor_initArray_nofilter(log, objs, person_only) ==
    IF objs.t # "arr" THEN [ret |-> U, logger |-> log, thrown |-> TRUE]
    ELSE LET kept(r) == [ret |-> IF r.thrown THEN U ELSE Arr(r.v),
                         logger |-> r.logger, thrown |-> r.thrown]
         IN  kept(Contributor_map(log, objs.a, 1, person_only, <<>>))

\* Contributor.initArray(logger, objs, person_only): [ret, logger, thrown]
Contributor_initArray(log, objs, person_only) ==
    IF objs.t # "arr" THEN [ret |-> U, logger |-> log, thrown |-> TRUE]
    ELSE LET filtered(r) ==
                 [ret |-> IF r.thrown THEN U
                          ELSE Arr(SelectSeq(r.v, LAMBDA contributor : ~contributor.invalid)),
                  logger |-> r.logger, thrown |-> r.thrown]
         IN  filtered(Contributor_map(log, objs.a, 1, person_only, <<>>))

(***************************************************************************)
(* LinkedResource (WebPublicationManifest.js)                              *)
(***************************************************************************)
ValidNpt == {"0:05:00", "30"}

\* npt.parse(duration) !== null
npt_ok(duration) == duration.t = "str" /\ duration.s \in ValidNpt

\* A mutant of self_link: the flag is not consulted
self_link_always(url_value, base, m_separate) == url_value = base

\* The last check of the constructor: with m_separate, a url that is the
\* base (the manifest's own URL) is an error
self_link(url_value, base, m_separate) == Truthy(m_separate) /\ url_value = base

\* new LinkedResource(logger, obj, base, m_separate): [o, logger, thrown]
LinkedResource(log, obj, base, m_separate) ==
    LET has_url == Get(obj, "url") # U
        log1 == Logger_assert(log, Bool(has_url),
                              Msg("Invalid publication link: no URL provided.", U), "error").logger
        duration == OrUndefined(Get(obj, "duration"))
        is_self == self_link(Get(obj, "url"), base, m_separate)
        \* the instance once this._description is set
        described(names, description) ==
            LET log2 == IF Truthy(duration)
                        THEN Logger_assert(description.logger, Bool(npt_ok(duration)),
                                           Msg("is an invalid NPT value.", duration), "warning").logger
                        ELSE description.logger
                log3 == IF Truthy(m_separate)
                        THEN Logger_assert(log2, Bool(~is_self),
                                           Msg("Manifest URL must not be part of a link", U),
                                           "error").logger
                        ELSE log2
            IN  [o |-> [t |-> "LinkedResource",
                        url |-> Get(obj, "url"),
                        encodingFormat |-> OrUndefined(Get(obj, "encodingFormat")),
                        name |-> names.ret,
                        description |-> description.o,
                        rel |-> OrUndefined(Get(obj, "rel")),
                        duration |-> duration,
                        extra |-> condClone({"type", "url", "encodingFormat", "name",
                                             "description", "rel", "duration"}, obj),
                        invalid |-> ~has_url \/ is_self],
                 logger |-> log3, thrown |-> FALSE]
        \* the constructor once this._name is set: names is [ret, logger, thrown]
        named(names) ==
            IF names.thrown THEN [o |-> U, logger |-> names.logger, thrown |-> TRUE]
            ELSE described(names,
                           IF Truthy(Get(obj, "description"))
                           THEN LocalizableString(names.logger, Get(obj, "description"))
                           ELSE [o |-> U, logger |-> names.logger])
        \* the constructor once the url is checked
        addressed(checked) ==
            IF checked.thrown THEN [o |-> U, logger |-> checked.logger, thrown |-> TRUE]
            ELSE named(IF Truthy(Get(obj, "name"))
                       THEN LocalizableString_initArray(checked.logger, Get(obj, "name"))
                       ELSE [ret |-> U, logger |-> checked.logger, thrown |-> FALSE])
    IN  addressed(IF has_url THEN check_url(Get(obj, "url"), log1, TRUE)
                  ELSE [ret |-> U, logger |-> log1, thrown |-> FALSE])

RECURSIVE LinkedResource_map(_, _, _, _, _, _)
LinkedResource_map(log, values, i, base, m_separate, acc) ==
    IF i > Len(values) THEN [v |-> acc, logger |-> log, thrown |-> FALSE]
    ELSE LET rest(r) ==
                 IF r.thrown THEN [v |-> acc, logger |-> r.logger, thrown |-> TRUE]
                 ELSE LinkedResource_map(r.logger, values, i + 1, base, m_separate, Append(acc, r.o))
         IN  rest(LinkedResource(log, values[i], base, m_separate))

\* LinkedResource.initArray(logger, values, base, m_separate)
LinkedResource_initArray(log, values, base, m_separate) ==
    IF values.t # "arr" THEN [ret |-> U, logger |-> log, thrown |-> TRUE]
    ELSE LET filtered(r) ==
                 [ret |-> IF r.thrown THEN U
                          ELSE Arr(SelectSeq(r.v, LAMBDA link : ~link.invalid)),
                  logger |-> r.logger, thrown |-> r.thrown]
         IN  filtered(LinkedResource_map(log, values.a, 1, base, m_separate, <<>>))

(***************************************************************************)
(* WebPublicationManifest (WebPublicationManifest.js)                      *)
(***************************************************************************)
\* The frozen enumerations TextDirection and ProgressionDirection
Sym(enum, name) == [t |-> "symbol", enum |-> enum, v |-> name]

\* The instance's own properties with one underscore, without it: the terms
\* get_wpm finds a field for
manifest_terms ==
    {"url", "type", "accessMode", "accessModeSufficient", "accessibilityControl",
     "accessibilityAPI", "accessibilityFeature", "accessibilityHazard",
     "accessibilitySummary", "id", "artist", "author", "colorist", "contributor",
     "creator", "editor", "illustrator", "inker", "letterer", "penciler", "publisher",
     "readby", "translator", "inLanguage", "inDirection", "dateModified",
     "datePublished", "readingProgression", "name", "readingOrder", "resources",
     "links", "toc"}

\* new WebPublicationManifest(logger, base, m_separate): what the getters
\* return (toc has no accessor: wpm.toc is a plain property)
NewWpm ==
    [term \in manifest_terms |->
        CASE term = "readingProgression" -> Sym("ProgressionDirection", "ltr")
          [] term \in {"resources", "links"} -> Arr(<<>>)
          [] OTHER -> U]

accessMode_terms ==
    {"auditory", "tactile", "textual", "visual", "colorDependent", "chartOnVisual",
     "chemOnVisual", "diagramOnVisual", "mathOnVisual", "musicOnVisual", "textOnVisual"}

accessModeSufficient_terms == {"auditory", "tactile", "textual", "visual"}

accessibilityControl_terms ==
    {"fullKeyboardControl", "fullMouseControl", "fullSwitchControl",
     "fullTouchControl", "fullVideoControl", "fullVoiceControl"}

accessibilityAPI_terms ==
    {"AndroidAccessibility", "ARIA", "ATK", "AT-SPI", "BlackberryAccessibility",
     "iAccessible2", "iOSAccessibility", "JavaAccessibility", "MacOSXAccessibility",
     "MSAA", "UIAutomation"}

accessibilityFeature_terms ==
    {"alternativeText", "annotations", "audioDescription", "bookmarks", "braille",
     "captions", "ChemML", "describedMath", "displayTransformability",
     "highContrastAudio", "highContrastDisplay", "index", "largePrint", "latex",
     "longDescription", "MathML", "none", "printPageNumbers", "readingOrder",
     "rubyAnnotations", "signLanguage", "structuralNavigation", "synchronizedAudioText",
     "tableOfContents", "taggedPDF", "tactileGraphic", "tactileObject", "timingControl",
     "transcript", "ttsMarkup", "unlocked"}

accessibilityHazard_terms ==
    {"flashing", "noFlashingHazard", "motionSimulation", "noMotionSimulationHazard",
     "sound", "noSoundHazard", "unknown", "none"}

allowed_terms(term) ==
    CASE term = "accessMode"           -> accessMode_terms
      [] term = "accessModeSufficient" -> accessModeSufficient_terms
      [] term = "accessibilityControl" -> accessibilityControl_terms
      [] term = "accessibilityAPI"     -> accessibilityAPI_terms
      [] term = "accessibilityFeature" -> accessibilityFeature_terms
      [] term = "accessibilityHazard"  -> accessibilityHazard_terms

\* `"${item}" may not be a valid term for ${term}`, the item being the arg
a11y_text(term) ==
    CASE term = "accessMode"           -> "may not be a valid term for accessMode"
      [] term = "accessModeSufficient" -> "may not be a valid term for accessModeSufficient"
      [] term = "accessibilityControl" -> "may not be a valid term for accessibilityControl"
      [] term = "accessibilityAPI"     -> "may not be a valid term for accessibilityAPI"
      [] term = "accessibilityFeature" -> "may not be a valid term for accessibilityFeature"
      [] term = "accessibilityHazard"  -> "may not be a valid term for accessibilityHazard"

\* __a11yterms(term, allowed_terms, a_mode) on the elements from i on:
\* [v: the items kept, logger]
RECURSIVE a11yterms_from(_, _, _, _, _)
a11yterms_from(log, term, a_mode, i, acc) ==
    IF i > Len(a_mode) THEN [v |-> acc, logger |-> log, thrown |-> FALSE]
    ELSE LET item == a_mode[i]
             ok == item.t = "str" /\ item.s \in allowed_terms(term)
             check == Logger_assert(log, Bool(ok), Msg(a11y_text(term), item), "warning")
         IN  a11yterms_from(check.logger, term, a_mode, i + 1,
                            IF ok THEN Append(acc, item) ELSE acc)

a11yterms(log, term, a_mode) == a11yterms_from(log, term, a_mode, 1, <<>>)

\* str.split(',').map((val) => val.trim()) and its inverse join(','), on the
\* strings of the model that hold a comma
CommaStrings == {"textual,visual", "visual, bogus"}

split_trim(s) ==
    CASE s = "textual,visual" -> <<"textual", "visual">>
      [] s = "visual, bogus"  -> <<"visual", "bogus">>
      [] OTHER                -> <<s>>

join_comma(items) ==
    IF Len(items) = 1 THEN items[1]
    ELSE Str(CHOOSE s \in CommaStrings :
                 split_trim(s) = [i \in 1..Len(items) |-> items[i].s])

\* The accessModeSufficient setter's map, from element i on
RECURSIVE accessModeSufficient_from(_, _, _, _)
accessModeSufficient_from(log, a_mode, i, acc) ==
    IF i > Len(a_mode) THEN [v |-> acc, logger |-> log, thrown |-> FALSE]
    ELSE IF a_mode[i].t # "str" THEN [v |-> acc, logger |-> log, thrown |-> TRUE]
    ELSE LET parts == split_trim(a_mode[i].s)
             inner_array == [j \in 1..Len(parts) |-> Str(parts[j])]
             rest(checked) ==
                 accessModeSufficient_from(checked.logger, a_mode, i + 1,
                     IF checked.v = <<>> THEN acc ELSE Append(acc, join_comma(checked.v)))
         IN  rest(a11yterms(log, "accessModeSufficient", inner_array))

ValidDates == {"2019-01-01", "2019-01-01T12:00:00Z"}

\* !isNaN(Date.parse(date)), for the date strings of the model
date_ok(date) == date.t = "str" /\ date.s \in ValidDates

\* The roles whose setter passes person_only = true
person_only_terms == {"artist", "colorist"}

contributor_terms ==
    {"artist", "author", "colorist", "contributor", "creator", "editor", "illustrator",
     "inker", "letterer", "penciler", "publisher", "readby", "translator"}

a11y_terms == {"accessMode", "accessibilityControl", "accessibilityAPI",
               "accessibilityFeature", "accessibilityHazard"}

link_terms == {"readingOrder", "resources", "links"}

\* wpm[term] = value: the setter of the term.  [wpm, logger, thrown]
Setter(w, log, term, value, base, m_separate) ==
    LET done(val, lg) == [wpm |-> [w EXCEPT ![term] = val], logger |-> lg, thrown |-> FALSE]
        same(lg) == [wpm |-> w, logger |-> lg, thrown |-> FALSE]
        throw(lg) == [wpm |-> w, logger |-> lg, thrown |-> TRUE]
        \* this._term = r.ret, r being what an initArray gave
        assign(r) == IF r.thrown THEN throw(r.logger) ELSE done(r.ret, r.logger)
        \* this._term = r.v, r being what __a11yterms or the map gave
        assign_terms(r) == IF r.thrown THEN throw(r.logger) ELSE done(Arr(r.v), r.logger)
    IN  CASE term = "url" ->
                LET checked(c) == [wpm |-> [w EXCEPT ![term] = value],
                                   logger |-> c.logger, thrown |-> c.thrown]
                IN  checked(check_url(value, log, TRUE))
          [] term \in {"type", "id", "toc"} -> done(value, log)
          [] term \in a11y_terms ->
                IF value.t # "arr" THEN throw(log)
                ELSE assign_terms(a11yterms(log, term, value.a))
          [] term = "accessModeSufficient" ->
                IF value.t # "arr" THEN throw(log)
                ELSE assign_terms(accessModeSufficient_from(log, value.a, 1, <<>>))
          [] term = "accessibilitySummary" ->
                LET assign_string(r) == done(r.o, r.logger)
                IN  assign_string(LocalizableString(log, value))
          [] term \in contributor_terms ->
                assign(Contributor_initArray(log, value, term \in person_only_terms))
          [] term = "inLanguage" ->
                IF value = U THEN same(log)
                ELSE IF bcppattern_test(value) THEN done(value, log)
                ELSE same(LogFalse(log, Msg("is not a valid language tag", value), "warning"))
          [] term = "inDirection" ->
                IF value \in {Str("ltr"), Str("rtl"), Str("auto")}
                THEN done(Sym("TextDirection", value.s), log)
                ELSE same(LogFalse(log, Msg("is not a valid text direction tag", value), "warning"))
          [] term = "dateModified" ->
                IF date_ok(value) THEN done(value, log)
                ELSE same(LogFalse(log,
                        Msg("is an invalid Date or DateTime string for the modification date.", value),
                        "warning"))
          [] term = "datePublished" ->
                IF date_ok(value) THEN done(value, log)
                ELSE same(LogFalse(log,
                        Msg("is an invalid Date or DateTime string for the publication date.", value),
                        "warning"))
          [] term = "readingProgression" ->
                \* ProgressionDirection has no rtr; this.__logger is no function
                IF value = Str("rtr") THEN done(U, log)
                ELSE IF value = Str("ltr") THEN done(Sym("ProgressionDirection", "ltr"), log)
                ELSE throw(log)
          [] term \in link_terms ->
                assign(LinkedResource_initArray(log, value, base, m_separate))
          [] term = "name" ->
                assign(LocalizableString_initArray(log, value))

(***************************************************************************)
(* process.js                                                              *)
(***************************************************************************)
\* The forEach as it would be if a term without a field were reported
RECURSIVE get_wpm_from_reporting(_, _, _, _, _, _)
get_wpm_from_reporting(w, log, canonical, i, base, m_separate) ==
    IF i > Len(canonical.k) THEN [wpm |-> w, logger |-> log, thrown |-> FALSE]
    ELSE LET term == canonical.k[i]
         IN  IF term # "@context" /\ term \in manifest_terms
             THEN LET rest(r) ==
                          IF r.thrown THEN [wpm |-> U, logger |-> r.logger, thrown |-> TRUE]
                          ELSE get_wpm_from_reporting(r.wpm, r.logger, canonical, i + 1,
                                                      base, m_separate)
                  IN  rest(Setter(w, log, term, canonical.v[term], base, m_separate))
             ELSE get_wpm_from_reporting(w, LogFalse(log, Msg("Unknown term", Str(term)),
                                                     "warning"),
                                         canonical, i + 1, base, m_separate)

\* The forEach of get_wpm over Object.keys(canonical_manifest), from key i
RECURSIVE get_wpm_from(_, _, _, _, _, _)
get_wpm_from(w, log, canonical, i, base, m_separate) ==
    IF i > Len(canonical.k) THEN [wpm |-> w, logger |-> log, thrown |-> FALSE]
    ELSE LET term == canonical.k[i]
         IN  IF term # "@context" /\ term \in manifest_terms
             THEN LET rest(r) ==
                          IF r.thrown THEN [wpm |-> U, logger |-> r.logger, thrown |-> TRUE]
                          ELSE get_wpm_from(r.wpm, r.logger, canonical, i + 1, base, m_separate)
                  IN  rest(Setter(w, log, term, canonical.v[term], base, m_separate))
             ELSE get_wpm_from(w, log, canonical, i + 1, base, m_separate)

\* get_wpm as it would be if only the first key of the manifest were set
get_wpm_first(log, canonical, base, m_separate) ==
    IF canonical.t # "obj" THEN [wpm |-> U, logger |-> log, thrown |-> TRUE]
    ELSE get_wpm_from(NewWpm, log,
                      Obj(SelectSeq(canonical.k, LAMBDA x : x = canonical.k[1]), canonical.v),
                      1, base, m_separate)

\* get_wpm(logger, canonical_manifest, base, m_separate): [wpm, logger,
\* thrown].  Object.keys(undefined) throws; the catch block logs nothing
\* (its assert is given true) and throws again.
get_wpm(log, canonical, base, m_separate) ==
    IF canonical.t # "obj" THEN [wpm |-> U, logger |-> log, thrown |-> TRUE]
    ELSE get_wpm_from(NewWpm, log, canonical, 1, base, m_separate)

\* The manifest text: whether JSON.parse accepts it, and the value it gives
ManifestText(parses, json) == [t |-> "text", parses |-> parses, json |-> json]

required_contexts == <<"https://schema.org", "https://www.w3.org/ns/wp-context">>

\* calculate_defaults as process.js gets it from require('./utils'): utils.js
\* exports no such name, so it is undefined and calling it is a TypeError
calculate_defaults == U

\* get_canonical_manifest as it would be if a parse failure were logged and
\* the empty manifest returned
get_canonical_manifest_lenient(log, manifest_data) ==
    [ret |-> EmptyObj, logger |-> LogFalse(log, Msg("JSON parsing error", U), "error"),
     thrown |-> FALSE, caught |-> TRUE, partial |-> U]

\* get_canonical_manifest(logger, manifest_data): [ret, logger, thrown], with
\* caught: whether the catch block of canonicalize ran, and partial: the
\* manifest canonicalize had built when it ended
get_canonical_manifest(log, manifest_data) ==
    IF manifest_data = U
    THEN \* the destructuring of undefined throws before the try block
         [ret |-> U, logger |-> log, thrown |-> TRUE, caught |-> FALSE, partial |-> U]
    ELSE IF ~manifest_data.manifest_text.parses
    THEN \* both catch blocks call logger.assert(true, ...) and throw
         [ret |-> U,
          logger |-> Logger_assert(
                        Logger_assert(log, Bool(TRUE), Msg("(JSON parsing error)", U), "error").logger,
                        Bool(TRUE), Msg("(In processing the manifest)", U), "error").logger,
          thrown |-> TRUE, caught |-> FALSE, partial |-> U]
    ELSE LET manifest_object == manifest_data.manifest_text.json
             context == Get(manifest_object, "@context")
             \* the message and the level are arguments of Array.isArray
             context_cond == IF Truthy(context) THEN Bool(context.t = "arr") ELSE context
             log1 == Logger_assert(log, context_cond, U, "undefined").logger
             check_contexts ==
                 \A i \in 1..Len(required_contexts) :
                     i <= Len(context.a) /\ context.a[i] = Str(required_contexts[i])
             log2 == IF Truthy(context_cond)
                     THEN Logger_assert(log1, Bool(check_contexts),
                                        Msg("Context references are invalid", U), "error").logger
                     ELSE log1
             log3 == Logger_assert(log2, Get(manifest_object, "type"),
                                   Msg("No publication type has been provided", U), "error").logger
             returned(r) == [ret |-> r.ret, logger |-> r.logger, thrown |-> FALSE,
                             caught |-> r.thrown, partial |-> r.partial]
         IN  IF calculate_defaults = U
             THEN \* calculate_defaults(dom) throws; the catch block calls
                  \* logger.assert(true, ...) and throws
                  [ret |-> U,
                   logger |-> Logger_assert(log2, Bool(TRUE),
                                            Msg("(In processing the manifest)", U), "error").logger,
                   thrown |-> TRUE, caught |-> FALSE, partial |-> U]
             ELSE returned(canonicalize(log3, manifest_object, manifest_data.base.s,
                                        manifest_data.dom, manifest_data.lang, manifest_data.dir,
                                        core_profile))

(***************************************************************************)
(* Bounds and inputs                                                       *)
(***************************************************************************)
\* the most entries a generated raw manifest holds
MaxKeys == 2

\* the most elements of an array given to an initArray on its own
MaxItems == 2

\* the most calls of Logger.assert on one logger
MaxLog == 3

O1(k1, v1) == Obj(<<k1>>, (k1 :> v1))

O2(k1, v1, k2, v2) == Obj(<<k1, k2>>, (k1 :> v1) @@ (k2 :> v2))

O3(k1, v1, k2, v2, k3, v3) == Obj(<<k1, k2, k3>>, (k1 :> v1) @@ (k2 :> v2) @@ (k3 :> v3))

Entry(key, val) == [key |-> key, val |-> val]

\* The entries raw manifests are made of: per term the shapes the manifest
\* format allows (string, object, array) and values that violate the schema
Pool ==
    << Entry("name", Str("Hi")),
       Entry("name", Arr(<<O2("value", Str("Salut"), "language", Str("fr")), O1("language", Str("en"))>>)),
       Entry("name", O1("language", Str("en"))),
       Entry("name", Str("")),
       Entry("author", Str("Jane Doe")),
       Entry("author", Str("")),
       Entry("author", EmptyObj),
       Entry("author", Arr(<<Str("Jane Doe"), O2("name", Str("ACME"), "type", Str("Organization"))>>)),
       Entry("author", O2("name", O1("language", Str("en")), "type", Str("Foo"))),
       Entry("author", O3("name", Str("Joe"), "url", Num(5), "id", Str("doc.html"))),
       Entry("artist", Arr(<<O2("name", Str("ACME"), "type", Str("Organization")), Str("Jane Doe")>>)),
       Entry("readBy", Str("Jane Doe")),
       Entry("colorist", Str("Jane Doe")),
       Entry("editor", O2("name", Str("ACME"), "type", Str("Organization"))),
       Entry("readingOrder", Str("doc.html")),
       Entry("readingOrder", Arr(<<Str("m.json"), Str("doc.html")>>)),
       Entry("resources", EmptyObj),
       Entry("resources", O3("url", Str("doc.html"), "name", O1("language", Str("en")), "duration", Str("soon"))),
       Entry("links", O2("url", Str("report.html"), "rel", Str("accessibility-report"))),
       Entry("links", Str("index.html")),
       Entry("accessMode", Str("invalid-term")),
       Entry("accessMode", Arr(<<Str("visual"), Str("invalid-term"), Str("textual")>>)),
       Entry("accessMode", Str("")),
       Entry("accessModeSufficient", Arr(<<Str("textual,visual"), Str("visual, bogus"), Str("bogus")>>)),
       Entry("accessibilityHazard", Str("none")),
       Entry("accessibilitySummary", Str("Summary")),
       Entry("accessibilitySummary", O1("language", Str("en"))),
       Entry("url", Str("index.html")),
       Entry("url", Num(5)),
       Entry("id", Str("ftp://x.test/doc.html")),
       Entry("type", Str("Book")),
       Entry("inLanguage", Str("fr")),
       Entry("inLanguage", Str("en_US")),
       Entry("inDirection", Str("up")),
       Entry("dateModified", Str("yesterday")),
       Entry("datePublished", Str("2019-01-01")),
       Entry("readingProgression", Str("ltr")),
       Entry("readingProgression", Str("rtl")),
       Entry("@context", Arr(<<Str("https://schema.org"), Str("https://www.w3.org/ns/wp-context")>>)),
       Entry("@context", Str("https://schema.org")),
       Entry("@context", Arr(<<Str("https://www.w3.org/ns/wp-context"), Str("https://schema.org")>>)),
       Entry("toc", Str("toc.html")),
       Entry("custom", Str("kept")) >>

\* The index sequences of n entries in the pool's order, no term twice
Picks(n) ==
    {s \in [1..n -> 1..Len(Pool)] :
        \A i, j \in 1..n : i < j => s[i] < s[j] /\ Pool[s[i]].key # Pool[s[j]].key}

ManifestOf(s) ==
    Obj([i \in 1..Len(s) |-> Pool[s[i]].key],
        [key \in {Pool[s[i]].key : i \in 1..Len(s)} |->
            Pool[CHOOSE i \in Range(s) : Pool[i].key = key].val])

\* The scenario of the specification's testable properties
ScenarioManifest ==
    O3("name", Str("Hi"), "author", Str("Jane Doe"), "readingOrder", Str("doc.html"))

RawManifests ==
    {ScenarioManifest} \cup UNION {{ManifestOf(s) : s \in Picks(n)} : n \in 0..MaxKeys}

ManifestTexts ==
    {ManifestText(TRUE, m) : m \in RawManifests} \cup {ManifestText(FALSE, U)}

\* Where the manifest comes from: a separate file or a script element of the
\* primary entry page, with the defaults the page gives
Contexts ==
    { [base |-> Str(ManifestUrl), dom |-> U, lang |-> Str("en"), dir |-> Null,
       m_separate |-> Bool(TRUE)],
      [base |-> Str(ManifestUrl), dom |-> U, lang |-> Null, dir |-> Null,
       m_separate |-> Bool(FALSE)],
      [base |-> Str(PageUrl), dom |-> Document(PageUrl, Title("Page title", <<"", "fr">>)),
       lang |-> Null, dir |-> Null, m_separate |-> Bool(FALSE)],
      [base |-> Str(ManifestUrl), dom |-> Document(PageUrl, U),
       lang |-> Str("en_US"), dir |-> Str("rtl"), m_separate |-> Bool(TRUE)] }

ManifestData(text, c) ==
    [manifest_text |-> text, dom |-> c.dom, base |-> c.base, lang |-> c.lang, dir |-> c.dir,
     m_separate |-> c.m_separate]

(***************************************************************************)
(* The class with the getters of the derived links (part_002:749-1961): a  *)
(* WebPublicationManifest built with (logger, base, lang), whose links are *)
(* PublicationLink instances.  The instance is the function from the name  *)
(* of each getter with a setter to the value the getter returns.           *)
(***************************************************************************)
\* new LocalizableString(logger, obj, lang = ''): [o, logger]
new_LocalizableString(log, obj, lang) ==
    IF obj.t \in {"obj", "arr"}
    THEN LET has_value == Get(obj, "@value") # U
             log1 == Logger_assert(log, Bool(has_value), Msg("String without value", U),
                                   "error").logger
             language == Get(obj, "@language")
             valid == bcppattern_test(language)
         IN  [o |-> [t |-> "LocalizableString", value |-> Get(obj, "@value"),
                     lang |-> IF valid THEN language ELSE Str(""),
                     invalid |-> ~has_value],
              logger |-> Logger_assert(log1, Bool(valid),
                                       Msg("is not a valid language tag", language),
                                       "warning").logger]
    ELSE [o |-> [t |-> "LocalizableString", value |-> obj,
                 lang |-> IF lang = U THEN Str("") ELSE lang, invalid |-> FALSE],
          logger |-> log]

\* new PublicationLink(logger, obj, base, lang): [o, logger, thrown];
\* url.resolve throws a TypeError unless both its arguments are strings
new_PublicationLink(log, obj, base, lang) ==
    IF obj.t \in {"obj", "arr"}
    THEN LET has_url == Get(obj, "url") # U
             log1 == Logger_assert(log, Bool(has_url),
                                   Msg("Invalid publication link: no URL provided.", U),
                                   "error").logger
             rel == Get(obj, "rel")
             \* the instance once this._description is set
             described(address, name, description) ==
                 [o |-> [t |-> "PublicationLink",
                         url |-> address,
                         encodingFormat |-> OrUndefined(Get(obj, "encodingFormat")),
                         name |-> name.o,
                         description |-> description.o,
                         rel |-> IF Truthy(rel)
                                 THEN IF rel.t = "arr" THEN rel ELSE Arr(<<rel>>)
                                 ELSE U,
                         extra |-> condClone({"@type", "url", "encodingFormat", "name",
                                              "description", "rel"}, obj),
                         invalid |-> ~has_url],
                  logger |-> description.logger, thrown |-> FALSE]
             \* the constructor once this._name is set
             named(address, name) ==
                 described(address, name,
                           IF Truthy(Get(obj, "description"))
                           THEN new_LocalizableString(name.logger, Get(obj, "description"), lang)
                           ELSE [o |-> U, logger |-> name.logger])
             \* the constructor once this._url is set and checked
             addressed(address, log2) ==
                 named(address,
                       IF Truthy(Get(obj, "name"))
                       THEN new_LocalizableString(log2, Get(obj, "name"), lang)
                       ELSE [o |-> U, logger |-> log2])
         IN  IF ~has_url THEN addressed(U, log1)
             ELSE IF base.t # "str" \/ Get(obj, "url").t # "str"
             THEN [o |-> U, logger |-> log1, thrown |-> TRUE]
             ELSE LET checked(address) == addressed(address, check_url(address, log1, TRUE).logger)
                  IN  checked(Str(url_resolve(base.s, Get(obj, "url").s)))
    ELSE IF base.t # "str" \/ obj.t # "str"
    THEN [o |-> U, logger |-> log, thrown |-> TRUE]
    ELSE [o |-> [t |-> "PublicationLink", url |-> Str(url_resolve(base.s, obj.s)),
                 encodingFormat |-> U, name |-> U, description |-> U, rel |-> U,
                 extra |-> EmptyObj, invalid |-> FALSE],
          logger |-> log, thrown |-> FALSE]

\* PublicationLink.initArray(logger, values, base, lang): [ret, logger,
\* thrown]; a value that is no array is taken as the one element of an
\* array, and undefined is returned when no link is left
PublicationLink_initArray(log, values, base, lang) ==
    LET linkArray == IF values.t = "arr" THEN values.a ELSE <<values>>
        RECURSIVE map(_, _, _)
        map(lg, i, acc) ==
            IF i > Len(linkArray) THEN [v |-> acc, logger |-> lg, thrown |-> FALSE]
            ELSE LET rest(r) ==
                         IF r.thrown THEN [v |-> acc, logger |-> r.logger, thrown |-> TRUE]
                         ELSE map(r.logger, i + 1, Append(acc, r.o))
                 IN  rest(new_PublicationLink(lg, linkArray[i], base, lang))
        filtered(r) ==
            LET retval == SelectSeq(r.v, LAMBDA link : ~link.invalid)
            IN  [ret |-> IF r.thrown \/ Len(retval) = 0 THEN U ELSE Arr(retval),
                 logger |-> r.logger, thrown |-> r.thrown]
    IN  filtered(map(log, 1, <<>>))

\* LocalizableString.initArray(logger, values, lang): [ret, logger]; a
\* value that is no array is taken as the one element of an array, and
\* undefined is returned when no string is left
LocalizableString_initArray_lang(log, values, lang) ==
    LET nameArray == IF values.t = "arr" THEN values.a ELSE <<values>>
        RECURSIVE map(_, _, _)
        map(lg, i, acc) ==
            IF i > Len(nameArray) THEN [v |-> acc, logger |-> lg]
            ELSE LET rest(r) == map(r.logger, i + 1, Append(acc, r.o))
                 IN  rest(new_LocalizableString(lg, nameArray[i], lang))
        filtered(r) ==
            LET retval == SelectSeq(r.v, LAMBDA name : ~name.invalid)
            IN  [ret |-> IF Len(retval) = 0 THEN U ELSE Arr(retval), logger |-> r.logger]
    IN  filtered(map(log, 1, <<>>))

\* new Contributor(logger, obj, base, lang), which new Person and new
\* Organization run: [o, logger, thrown]; url.resolve throws a TypeError
\* unless both its arguments are strings
new_Contributor(log, obj, base, lang) ==
    IF obj.t \in {"obj", "arr"}
    THEN LET has_name == Get(obj, "name") # U
             log1 == Logger_assert(log, Bool(has_name),
                                   Msg("Invalid contributor: no name provided.", U),
                                   "error").logger
             url_value == Get(obj, "url")
             type == Get(obj, "@type")
             type_array == IF type.t = "arr" THEN type ELSE Arr(<<type>>)
             \* the instance once this._url is set and checked
             addressed(names, address, log2) ==
                 [o |-> [t |-> "Contributor",
                         name |-> names.ret,
                         id |-> OrUndefined(Get(obj, "@id")),
                         url |-> address,
                         type |-> IF Truthy(type) THEN type_array ELSE U,
                         extra |-> condClone({"name", "@id", "url", "@type"}, obj),
                         invalid |-> ~has_name],
                  logger |-> IF Truthy(type)
                             THEN Logger_assert(log2,
                                      Bool(Includes(type_array, "Person")
                                           \/ Includes(type_array, "Organization")),
                                      Msg("Invalid type for a contributor", type_array),
                                      "warning").logger
                             ELSE log2,
                  thrown |-> FALSE]
             \* the constructor once this._name is set
             named(names) ==
                 IF ~Truthy(url_value) THEN addressed(names, U, names.logger)
                 ELSE IF base.t # "str" \/ url_value.t # "str"
                 THEN [o |-> U, logger |-> names.logger, thrown |-> TRUE]
                 ELSE LET checked(address) ==
                              addressed(names, address,
                                        check_url(address, names.logger, TRUE).logger)
                      IN  checked(Str(url_resolve(base.s, url_value.s)))
         IN  named(IF has_name
                   THEN LocalizableString_initArray_lang(log1, Get(obj, "name"), lang)
                   ELSE [ret |-> U, logger |-> log1])
    ELSE LET named(name) ==
                 [o |-> [t |-> "Contributor", name |-> Arr(<<name.o>>), id |-> U, url |-> U,
                         type |-> Str("Person"), extra |-> EmptyObj, invalid |-> FALSE],
                  logger |-> name.logger, thrown |-> FALSE]
         IN  named(new_LocalizableString(log, obj, lang))

\* objArray.map((obj) => new Person or new Organization(logger, obj, base,
\* lang)), which stops at the first exception, then the filter on
\* __invalid: [v, logger, thrown]
Contributor_valid(log, objs, base, lang) ==
    LET objArray == IF objs.t = "arr" THEN objs.a ELSE <<objs>>
        RECURSIVE map(_, _, _)
        map(lg, i, acc) ==
            IF i > Len(objArray) THEN [v |-> acc, logger |-> lg, thrown |-> FALSE]
            ELSE LET rest(r) ==
                         IF r.thrown THEN [v |-> acc, logger |-> r.logger, thrown |-> TRUE]
                         ELSE map(r.logger, i + 1, Append(acc, r.o))
                 IN  rest(new_Contributor(lg, objArray[i], base, lang))
        filtered(r) ==
            [v |-> SelectSeq(r.v, LAMBDA contributor : ~contributor.invalid),
             logger |-> r.logger, thrown |-> r.thrown]
    IN  filtered(map(log, 1, <<>>))

\* Contributor.initArray(logger, objs, base, lang): [ret, logger, thrown]
Contributor_initArray_lang(log, objs, base, lang) ==
    LET returned(r) ==
            [ret |-> IF r.thrown \/ Len(r.v) = 0 THEN U ELSE Arr(r.v),
             logger |-> r.logger, thrown |-> r.thrown]
    IN  returned(Contributor_valid(log, objs, base, lang))

\* Person.initArray(logger, values, base, lang): [ret, logger, thrown].
\* The second filter reads item._type.includes and item._name[0].value of
\* every person left, to build the arguments of logger.assert: a TypeError
\* when _type is undefined (an object without @type) or _name is
\* undefined (an object none of whose names has a value)
Person_initArray(log, values, base, lang) ==
    LET persons(r) ==
            LET RECURSIVE filter(_, _, _)
                filter(lg, i, acc) ==
                    IF i > Len(r.v)
                    THEN [ret |-> IF Len(acc) = 0 THEN U ELSE Arr(acc),
                          logger |-> lg, thrown |-> FALSE]
                    ELSE IF r.v[i].type = U \/ r.v[i].name = U
                    THEN [ret |-> U, logger |-> lg, thrown |-> TRUE]
                    ELSE LET is_person == Includes(r.v[i].type, "Person")
                         IN  filter(Logger_assert(lg, Bool(is_person),
                                        Msg("Only a \"Person\" object is allowed in this position",
                                            r.v[i].name.a[1].value), "error").logger,
                                    i + 1,
                                    IF is_person THEN Append(acc, r.v[i]) ELSE acc)
            IN  IF r.thrown THEN [ret |-> U, logger |-> r.logger, thrown |-> TRUE]
                ELSE filter(r.logger, 1, <<>>)
    IN  persons(Contributor_valid(log, values, base, lang))

\* `"${item}" is not a valid term for ${term}`, the item being the arg
a11y_warning(term) ==
    CASE term = "accessMode"           -> "is not a valid term for accessMode"
      [] term = "accessModeSufficient" -> "is not a valid term for accessModeSufficient"
      [] term = "accessibilityControl" -> "is not a valid term for accessibilityControl"
      [] term = "accessibilityAPI"     -> "is not a valid term for accessibilityAPI"
      [] term = "accessibilityFeature" -> "is not a valid term for accessibilityFeature"
      [] term = "accessibilityHazard"  -> "is not a valid term for accessibilityHazard"

\* this.__a11yterms(term, allowed_terms, a_mode): [ret, logger]; a value
\* that is no array is taken as the one element of an array, and
\* undefined is returned when no item is left
manifest_a11yterms(log, term, a_mode) ==
    LET a_mode_arr == IF a_mode.t = "arr" THEN a_mode.a ELSE <<a_mode>>
        RECURSIVE map(_, _, _)
        map(lg, i, fva) ==
            IF i > Len(a_mode_arr)
            THEN [ret |-> IF Len(fva) = 0 THEN U ELSE Arr(fva), logger |-> lg]
            ELSE LET item == a_mode_arr[i]
                     ok == item.t = "str" /\ item.s \in allowed_terms(term)
                 IN  map(Logger_assert(lg, Bool(ok), Msg(a11y_warning(term), item),
                                       "warning").logger,
                         i + 1, IF ok THEN Append(fva, item) ELSE fva)
    IN  map(log, 1, <<>>)

\* moment(date).isValid(): a string is valid when it is a date of
\* ValidDates (the other strings of the model are no dates in any format),
\* moment(undefined) is the present time, moment(null) is invalid, a
\* number is a time in milliseconds, and an object none of whose keys is a
\* unit of time gives the present time
moment_isValid(date) ==
    CASE date.t = "str"   -> date.s \in ValidDates
      [] date.t = "undef" -> TRUE
      [] date.t = "null"  -> FALSE
      [] date.t = "num"   -> TRUE
      [] date.t = "obj"   -> TRUE

\* The getters of the class that have a setter
manifest_getters ==
    {"url", "type", "accessMode", "accessModeSufficient", "accessibilityControl",
     "accessibilityAPI", "accessibilityFeature", "accessibilityHazard",
     "accessibilitySummary", "id", "artist", "author", "colorist", "contributor",
     "creator", "editor", "illustrator", "letterer", "penciler", "publisher",
     "readby", "translator", "inLanguage", "inDirection", "dateModifed",
     "datePublished", "readingProgression", "name", "readingOrder", "resources",
     "links", "toc"}

\* The roles whose setter calls Person.initArray; the setters of the other
\* roles call Contributor.initArray
person_terms == {"artist", "colorist", "editor", "illustrator", "letterer", "penciler",
                 "readby"}

contributor_roles == person_terms \cup {"author", "contributor", "creator", "publisher",
                                        "translator"}

\* w[term] = value, the setter of a term other than a link collection:
\* [wpm, logger, thrown]
manifest_set(w, log, term, value, base, lang) ==
    LET done(val, lg) == [wpm |-> [w EXCEPT ![term] = val], logger |-> lg, thrown |-> FALSE]
        same(lg) == [wpm |-> w, logger |-> lg, thrown |-> FALSE]
        throw(lg) == [wpm |-> w, logger |-> lg, thrown |-> TRUE]
        \* this._term = r.ret, r being what an initArray or __a11yterms gave
        assign(r) == done(r.ret, r.logger)
        assign_unless_thrown(r) == IF r.thrown THEN throw(r.logger) ELSE assign(r)
    IN  CASE term = "url" ->
                \* this._url is set before check_url is called
                IF value.t # "str" THEN throw(log)
                ELSE LET checked(address) ==
                             done(address, check_url(address, log, TRUE).logger)
                     IN  checked(Str(url_resolve(base.s, value.s)))
          [] term = "id" ->
                IF value.t # "str" THEN throw(log)
                ELSE done(Str(url_resolve(base.s, value.s)), log)
          [] term = "type" -> done(IF value.t = "arr" THEN value ELSE Arr(<<value>>), log)
          [] term \in a11y_terms \cup {"accessModeSufficient"} ->
                assign(manifest_a11yterms(log, term, value))
          [] term = "accessibilitySummary" ->
                LET assign_string(r) == done(r.o, r.logger)
                IN  assign_string(new_LocalizableString(log, value, lang))
          [] term \in person_terms ->
                assign_unless_thrown(Person_initArray(log, value, base, lang))
          [] term \in contributor_roles \ person_terms ->
                assign_unless_thrown(Contributor_initArray_lang(log, value, base, lang))
          [] term = "inLanguage" ->
                IF value = U THEN same(log)
                ELSE IF bcppattern_test(value) THEN done(value, log)
                ELSE same(LogFalse(log, Msg("is not a valid language tag", value), "warning"))
          [] term = "inDirection" ->
                IF value \in {Str("ltr"), Str("rtl"), Str("auto")}
                THEN done(Sym("TextDirection", value.s), log)
                ELSE same(LogFalse(log, Msg("is not a valid text direction tag", value), "warning"))
          [] term \in {"dateModifed", "datePublished"} ->
                IF moment_isValid(value) THEN done(value, log)
                ELSE same(LogFalse(log, Msg("is an invalid Date or DateTime string.", value),
                                   "warning"))
          [] term = "readingProgression" ->
                \* ProgressionDirection has no rtr; this.__logger is no function
                IF value = Str("rtr") THEN done(U, log)
                ELSE IF value = Str("ltr") THEN done(Sym("ProgressionDirection", "ltr"), log)
                ELSE throw(log)
          [] term = "name" -> assign(LocalizableString_initArray_lang(log, value, lang))
          [] term = "toc" -> done(value, log)

\* new WebPublicationManifest(logger, base, lang): [wpm, thrown].  The
\* constructor sets this._readingOrder = [new PublicationLink(base, base,
\* lang)]: the base stands where the logger is expected, the language where
\* the base is, so url.resolve(lang, base) throws unless lang is a string.
new_WebPublicationManifest(log, base, lang) ==
    LET built(first) ==
            IF first.thrown THEN [wpm |-> U, thrown |-> TRUE]
            ELSE [wpm |-> [term \in manifest_getters |->
                              CASE term = "readingOrder" -> Arr(<<first.o>>)
                                [] term = "readingProgression" ->
                                       Sym("ProgressionDirection", "ltr")
                                [] OTHER -> U],
                  thrown |-> FALSE]
    IN  built(new_PublicationLink(base, base, lang, U))

(***************************************************************************)
(* The derived links of the model: accessibilityReport, privacyPolicy,     *)
(* cover and _toc_reference, each with a searched flag and a cached value  *)
(***************************************************************************)
LookupNames == {"accessibilityReport", "privacyPolicy", "cover", "toc_reference"}

\* The fields with two underscores the constructor sets, the values the
\* getters store, how often each getter has searched and been read, and how
\* often a caller has assigned a link collection and another field of the
\* instance
NewLookups ==
    [accessibilityReport_searched |-> FALSE, accessibilityReport |-> U,
     privacyPolicy_searched |-> FALSE, privacyPolicy |-> U,
     cover_searched |-> FALSE, cover |-> U,
     toc_link_searched |-> FALSE, toc_searched |-> FALSE, toc_link |-> U,
     searches |-> [n \in LookupNames |-> 0],
     accesses |-> 0,
     assigned |-> 0,
     fields |-> 0]

\* where.find((item) => item.rel && item.rel.includes(rel_value))
RECURSIVE find_from(_, _, _)
find_from(items, i, rel_value) ==
    IF i > Len(items) THEN U
    ELSE IF Truthy(items[i].rel) /\ Includes(items[i].rel, rel_value) THEN items[i]
    ELSE find_from(items, i + 1, rel_value)

find_link(where, rel_value) ==
    IF where = U THEN U ELSE find_from(where.a, 1, rel_value)

\* find_link(this._readingOrder) || find_link(this._resources) || find_link(this._links)
find_in_order(w, rel_value) ==
    LET third(found) == IF found # U THEN found ELSE find_link(w["links"], rel_value)
        second(found) == IF found # U THEN found ELSE third(find_link(w["resources"], rel_value))
    IN  second(find_link(w["readingOrder"], rel_value))

\* the find_links of the cover getter: every item whose rel has rel_value
find_links(where, rel_value) ==
    IF where = U THEN <<>>
    ELSE SelectSeq(where.a, LAMBDA item : Truthy(item.rel) /\ Includes(item.rel, rel_value))

Searched(lk, name) == [lk EXCEPT !.searches[name] = @ + 1, !.accesses = @ + 1]
Read(lk) == [lk EXCEPT !.accesses = @ + 1]

\* get accessibilityReport(): [ret, lookups]
accessibilityReport(w, lk) ==
    IF lk.accessibilityReport_searched
    THEN [ret |-> lk.accessibilityReport, lookups |-> Read(lk)]
    ELSE LET stored(found) ==
                [ret |-> found,
                 lookups |-> [Searched(lk, "accessibilityReport") EXCEPT
                                 !.accessibilityReport_searched = TRUE,
                                 !.accessibilityReport = found]]
         IN  stored(find_in_order(w, "https://www.w3.org/ns/wp#accessibility-report"))

\* get privacyPolicy(): [ret, lookups]
privacyPolicy(w, lk) ==
    IF lk.privacyPolicy_searched
    THEN [ret |-> lk.privacyPolicy, lookups |-> Read(lk)]
    ELSE LET stored(found) ==
                [ret |-> found,
                 lookups |-> [Searched(lk, "privacyPolicy") EXCEPT
                                 !.privacyPolicy_searched = TRUE,
                                 !.privacyPolicy = found]]
         IN  stored(find_in_order(w, "privacy-policy"))

\* get cover(): [ret, lookups]
cover(w, lk) ==
    IF lk.cover_searched
    THEN [ret |-> lk.cover, lookups |-> Read(lk)]
    ELSE LET stored(covers) ==
                LET value == IF Len(covers) > 0 THEN Arr(covers) ELSE U
                IN  [ret |-> value,
                     lookups |-> [Searched(lk, "cover") EXCEPT
                                     !.cover_searched = TRUE, !.cover = value]]
         IN  stored(find_links(w["readingOrder"], "https://www.w3.org/ns/wp#cover")
                    \o find_links(w["resources"], "https://www.w3.org/ns/wp#cover")
                    \o find_links(w["links"], "https://www.w3.org/ns/wp#cover"))

\* get _toc_reference(): [ret, lookups]. The guard reads __toc_link_searched,
\* the body sets __toc_searched; ___toc_link (three underscores) is never set
toc_reference(w, lk) ==
    IF lk.toc_link_searched
    THEN [ret |-> U, lookups |-> Read(lk)]
    ELSE LET stored(found) ==
                [ret |-> found,
                 lookups |-> [Searched(lk, "toc_reference") EXCEPT
                                 !.toc_searched = TRUE, !.toc_link = found]]
         IN  stored(find_in_order(w, "contents"))


(***************************************************************************)
(* get_canonical_manifest, and the two stages of the conversion on their   *)
(* own: canonicalize, then get_wpm on what it returned                     *)
(***************************************************************************)
Init ==
    /\ pc = "start"
    /\ input \in {ManifestData(text, c) : text \in ManifestTexts, c \in Contexts}
    /\ logger = NewLogger
    /\ canonical_manifest = U
    /\ wpm = U
    /\ result = U
    /\ console = <<>>
    /\ pending = {}
    /\ lookups = U

\* const canonical_manifest = get_canonical_manifest(logger, manifest_data)
GetCanonicalManifest ==
    /\ pc = "start"
    /\ \E r \in {get_canonical_manifest(logger, input)} :
           /\ pc' = IF r.thrown THEN "failed" ELSE "canonical"
           /\ logger' = r.logger
           /\ canonical_manifest' = r.ret
           /\ result' = [op |-> "get_canonical_manifest", thrown |-> r.thrown,
                         caught |-> r.caught, partial |-> r.partial]
    /\ UNCHANGED <<input, wpm, console, pending, lookups>>

\* canonicalize(logger, manifest_object, base, document, lang, dir) called on
\* its own, on the object a manifest text parses to
Canonicalize ==
    /\ pc = "start"
    /\ input.manifest_text.parses
    /\ \E r \in {canonicalize(logger, input.manifest_text.json, input.base.s, input.dom,
                              input.lang, input.dir, core_profile)} :
           /\ canonical_manifest' = r.ret
           /\ logger' = r.logger
           /\ result' = [op |-> "canonicalize", ret |-> r.ret, thrown |-> FALSE,
                         caught |-> r.thrown, partial |-> r.partial]
    /\ pc' = "canonical"
    /\ UNCHANGED <<input, wpm, console, pending, lookups>>

\* canonicalize called on what canonicalize returned
CanonicalizeAgain ==
    /\ pc = "canonical"
    /\ \E r \in {canonicalize(logger, canonical_manifest, input.base.s, input.dom,
                              input.lang, input.dir, core_profile)} :
           /\ logger' = r.logger
           /\ result' = [op |-> "canonicalize", ret |-> r.ret]
    /\ pc' = "again"
    /\ UNCHANGED <<input, canonical_manifest, wpm, console, pending, lookups>>

\* get_wpm(logger, canonical_manifest, base, m_separate), given what
\* canonicalize returned
GetWpm ==
    /\ pc = "canonical"
    /\ \E r \in {get_wpm(logger, canonical_manifest, input.base, input.m_separate)} :
           /\ pc' = IF r.thrown THEN "failed" ELSE "done"
           /\ logger' = r.logger
           /\ wpm' = r.wpm
           /\ result' = [op |-> "get_wpm", thrown |-> r.thrown]
           /\ lookups' = IF r.thrown THEN U ELSE NewLookups
    /\ UNCHANGED <<input, canonical_manifest, console, pending>>

Next == GetCanonicalManifest \/ Canonicalize \/ GetWpm

Spec == Init /\ [][Next]_vars

(***************************************************************************)
(* Logger.assert on its own: any condition, message and level, call after  *)
(* call on one logger                                                      *)
(***************************************************************************)
Conditions == {Bool(TRUE), Bool(FALSE), U, Null, Str(""), Str("x"), Num(0), Arr(<<>>)}

Messages == {Msg("first message", U), Msg("second message", U)}

\* LogLevel.error, LogLevel.warning, and a level that is neither
Levels == {"error", "warning", "undefined"}

InitLogger ==
    /\ pc = "logger"
    /\ input = U
    /\ logger = NewLogger
    /\ canonical_manifest = U
    /\ wpm = U
    /\ result = U
    /\ console = <<>>
    /\ pending = {}
    /\ lookups = U

\* logger.assert(condition, message, level)
LoggerAssert ==
    /\ pc = "logger"
    /\ Len(logger.errors) + Len(logger.warnings) < MaxLog
    /\ \E condition \in Conditions, message \in Messages, level \in Levels :
          LET r == Logger_assert(logger, condition, message, level)
          IN  /\ input' = [condition |-> condition, message |-> message, level |-> level]
              /\ logger' = r.logger
              /\ result' = [op |-> "assert", before |-> logger, ret |-> r.ret]
    /\ UNCHANGED <<pc, canonical_manifest, wpm, console, pending, lookups>>

NextLogger == LoggerAssert

SpecLogger == InitLogger /\ [][NextLogger]_vars

(***************************************************************************)
(* Contributor.initArray on its own, on arrays of the shapes canonicalize  *)
(* hands over                                                              *)
(***************************************************************************)
LS(value, language) == O2("value", Str(value), "language", Str(language))

ContributorPool ==
    { EmptyObj,
      O1("url", Str("https://x.test/doc.html")),
      O1("url", Str("ftp://x.test/doc.html")),
      O1("url", Str("https://x.test:80/doc.html")),
      O2("type", Arr(<<Str("Organization")>>), "id", Str("https://x.test/doc.html")),
      O2("type", Arr(<<Str("Person")>>), "name", Arr(<<LS("Jane Doe", "en")>>)),
      O2("type", Arr(<<Str("Organization")>>), "name", Arr(<<LS("ACME", "en")>>)),
      O2("name", Arr(<<O1("language", Str("en"))>>), "url", Str("https://x.test/doc.html")) }

ArraysOf(pool, n) == UNION {[1..m -> pool] : m \in 0..n}

InitContributor ==
    /\ pc = "contributors"
    /\ input \in {[objs |-> Arr(objs), person_only |-> person_only] :
                    objs \in ArraysOf(ContributorPool, MaxItems), person_only \in BOOLEAN}
    /\ logger = NewLogger
    /\ canonical_manifest = U
    /\ wpm = U
    /\ result = U
    /\ console = <<>>
    /\ pending = {}
    /\ lookups = U

\* Contributor.initArray(logger, objs, person_only)
ContributorInitArray ==
    /\ pc = "contributors"
    /\ \E r \in {Contributor_initArray(logger, input.objs, input.person_only)} :
           /\ pc' = IF r.thrown THEN "failed" ELSE "done"
           /\ logger' = r.logger
           /\ result' = [op |-> "Contributor.initArray", ret |-> r.ret, thrown |-> r.thrown]
    /\ UNCHANGED <<input, canonical_manifest, wpm, console, pending, lookups>>

NextContributor == ContributorInitArray

SpecContributor == InitContributor /\ [][NextContributor]_vars

(***************************************************************************)
(* LinkedResource.initArray on its own                                     *)
(***************************************************************************)
LinkPool ==
    { O2("type", Arr(<<Str("LinkedResource")>>), "url", Str(ManifestUrl)),
      O2("url", Str(ManifestUrl), "name", Arr(<<LS("Manifest", "en")>>)),
      O2("type", Arr(<<Str("LinkedResource")>>), "url", Str(PageUrl)),
      O2("url", Str("https://x.test/doc.html"), "rel", Arr(<<Str("contents")>>)),
      O1("url", Str("ftp://x.test/doc.html")),
      O1("name", Arr(<<LS("No address", "en")>>)) }

InitLink ==
    /\ pc = "links"
    /\ input \in {[values |-> Arr(values), base |-> Str(base), m_separate |-> Bool(m_separate)] :
                    values \in ArraysOf(LinkPool, MaxItems),
                    base \in {ManifestUrl, PageUrl}, m_separate \in BOOLEAN}
    /\ logger = NewLogger
    /\ canonical_manifest = U
    /\ wpm = U
    /\ result = U
    /\ console = <<>>
    /\ pending = {}
    /\ lookups = U

\* LinkedResource.initArray(logger, values, base, m_separate)
LinkedResourceInitArray ==
    /\ pc = "links"
    /\ \E r \in {LinkedResource_initArray(logger, input.values, input.base, input.m_separate)} :
           /\ pc' = IF r.thrown THEN "failed" ELSE "done"
           /\ logger' = r.logger
           /\ result' = [op |-> "LinkedResource.initArray", ret |-> r.ret, thrown |-> r.thrown]
    /\ UNCHANGED <<input, canonical_manifest, wpm, console, pending, lookups>>

NextLink == LinkedResourceInitArray

SpecLink == InitLink /\ [][NextLink]_vars

(***************************************************************************)
(* Properties                                                              *)
(***************************************************************************)
(* The full conversion of a primary entry page: main fetches the page and  *)
(* hands its DOM to get_manifest, which awaits obtain_manifest and then    *)
(* canonicalizes and builds the model                                      *)
(***************************************************************************)
\* The JSDOM of a primary entry page: its document, with the
\* link[rel*="publication"] element (or U) and the script element the link
\* refers to (or U)
PrimaryEntryPage(docUrl, title, link, script) ==
    [t |-> "doc", URL |-> docUrl, title |-> title, link |-> link, script |-> script]

\* link: whether the href attribute starts with '#', and link.href
PublicationLink(embedded, href) == [embedded |-> embedded, href |-> href]

\* script: script.text, script.baseURI, and getAttribute('lang'), ('dir')
ManifestScript(text, baseURI, lang, dir) ==
    [text |-> text, baseURI |-> baseURI, lang |-> lang, dir |-> dir]

\* fetch_html(html_url), the fetch having come back: [ret, console]
fetch_html(html_url, response, out) ==
    IF response.ok THEN [ret |-> response.body, console |-> out]
    ELSE [ret |-> Null, console |-> Append(out, Msg("HTML parsing error in", Str(html_url)))]

\* fetch_json(json_url), the fetch having come back: [ret, console]
fetch_json(json_url, response, out) ==
    IF response.ok THEN [ret |-> response.body, console |-> out]
    ELSE [ret |-> ManifestText(TRUE, EmptyObj),
          console |-> Append(out, Msg("JSON fetch error in", Str(json_url)))]

\* obtain_manifest as it would be if the text of a manifest in a file of
\* its own were not waited for: manifest_data is returned as first built
obtain_manifest_unawaited(dom, out) ==
    LET fails == [manifest_data |-> U,
                  console |-> Append(out, Msg("Manifest processing error", U)),
                  fetch |-> U]
    IN  IF dom = Null THEN fails
        ELSE IF dom.link = U THEN fails
        ELSE IF dom.link.embedded
        THEN IF dom.script = U THEN fails
             ELSE [manifest_data |-> [manifest_text |-> dom.script.text,
                                      base |-> Str(dom.script.baseURI), dom |-> dom,
                                      lang |-> dom.script.lang, dir |-> dom.script.dir],
                   console |-> out, fetch |-> U]
        ELSE [manifest_data |-> [manifest_text |-> ManifestText(FALSE, U),
                                 base |-> Str(""), dom |-> dom, lang |-> Null, dir |-> Null],
              console |-> out, fetch |-> U]

\* obtain_manifest(dom) up to its return or to the await of fetch_json:
\* [manifest_data, console, fetch: the URL fetch_json is given, or U]
obtain_manifest(dom, out) ==
    LET fails == [manifest_data |-> U,
                  console |-> Append(out, Msg("Manifest processing error", U)),
                  fetch |-> U]
    IN  IF dom = Null THEN fails
        ELSE IF dom.link = U THEN fails
        ELSE IF dom.link.embedded
        THEN IF dom.script = U THEN fails
             ELSE [manifest_data |-> [manifest_text |-> dom.script.text,
                                      base |-> Str(dom.script.baseURI), dom |-> dom,
                                      lang |-> dom.script.lang, dir |-> dom.script.dir],
                   console |-> out, fetch |-> U]
        ELSE [manifest_data |-> [manifest_text |-> ManifestText(FALSE, U),
                                 base |-> Str(""), dom |-> dom, lang |-> Null, dir |-> Null],
              console |-> out, fetch |-> Str(dom.link.href)]

\* The third argument get_manifest gives to get_wpm
is_separate(manifest_data) == Bool(manifest_data.dom.URL # manifest_data.base.s)

\* The manifests the pages of the model publish
PublishedManifests ==
    { ManifestText(TRUE, ScenarioManifest),
      ManifestText(TRUE, O1("readingOrder", Arr(<<Str("m.json"), Str("doc.html")>>))),
      ManifestText(TRUE, O2("type", Str("Book"), "links", Str("index.html"))),
      ManifestText(TRUE, O2("resources", Str("m.json"), "links", Str("index.html"))),
      ManifestText(TRUE, O1("resources", O2("url", Str("nav.html"), "rel", Str("contents")))),
      ManifestText(TRUE, O1("links", O2("url", Str("report.html"), "rel", Str("accessibility-report")))),
      ManifestText(TRUE, O3("@context", Arr(<<Str("https://schema.org"),
                                              Str("https://www.w3.org/ns/wp-context")>>),
                            "type", Str("Book"), "name", Str("Hi"))),
      ManifestText(TRUE, O1("@context", Arr(<<Str("https://www.w3.org/ns/wp-context"),
                                              Str("https://schema.org")>>))),
      ManifestText(TRUE, EmptyObj),
      ManifestText(FALSE, U) }

PageTitle == Title("Page title", <<"", "fr">>)

\* The primary entry pages: the manifest in a file of its own, no manifest
\* reference, a reference to a script that is not there, and the manifest
\* in a script element
Pages ==
    { PrimaryEntryPage(PageUrl, PageTitle, PublicationLink(FALSE, ManifestUrl), U),
      PrimaryEntryPage(PageUrl, U, PublicationLink(FALSE, ManifestUrl), U),
      PrimaryEntryPage(PageUrl, PageTitle, U, U),
      PrimaryEntryPage(PageUrl, PageTitle, PublicationLink(TRUE, PageUrl), U) }
    \cup { PrimaryEntryPage(PageUrl, PageTitle, PublicationLink(TRUE, PageUrl),
                            ManifestScript(text, PageUrl, lang, Null)) :
              text \in PublishedManifests, lang \in {Null, Str("en")} }

\* What a fetch comes back with
Responses(bodies) == {[ok |-> TRUE, body |-> b] : b \in bodies} \cup {[ok |-> FALSE, body |-> U]}

InitManifest ==
    /\ pc = "main"
    /\ input = [final_url |-> PageUrl]
    /\ logger = NewLogger
    /\ canonical_manifest = U
    /\ wpm = U
    /\ result = U
    /\ console = <<>>
    /\ pending = {}
    /\ lookups = U

\* main: const top_level = await fetch_html(final_url), the fetch sent
FetchHtml ==
    /\ pc = "main"
    /\ pc' = "fetch_html"
    /\ pending' = pending \cup {input.final_url}
    /\ UNCHANGED <<input, logger, canonical_manifest, wpm, result, console, lookups>>

\* the fetch of the page comes back, and fetch_html returns
FetchHtmlDone ==
    /\ pc = "fetch_html"
    /\ \E response \in Responses(Pages) :
          \E r \in {fetch_html(input.final_url, response, console)} :
              /\ input' = [top_level |-> r.ret]
              /\ console' = r.console
    /\ pending' = pending \ {input.final_url}
    /\ pc' = "get_manifest"
    /\ UNCHANGED <<logger, canonical_manifest, wpm, result, lookups>>

\* get_manifest(dom): new Logger(), and obtain_manifest(dom) up to its
\* return or to the await of fetch_json
ObtainManifest ==
    /\ pc = "get_manifest"
    /\ logger' = NewLogger
    /\ \E r \in {obtain_manifest(input.top_level, console)} :
          /\ input' = r.manifest_data
          /\ console' = r.console
          /\ pending' = IF r.fetch = U THEN pending ELSE pending \cup {r.fetch.s}
          /\ pc' = IF r.fetch = U THEN "start" ELSE "fetch_json"
    /\ UNCHANGED <<canonical_manifest, wpm, result, lookups>>

\* the fetch of the manifest comes back and fetch_json returns: its catch
\* block has printed the warning of a failed fetch, the text it returns is
\* what the await in obtain_manifest will give, and manifest_data is as
\* obtain_manifest built it (manifest_text and base the empty string)
FetchJsonDone ==
    /\ pc = "fetch_json"
    /\ \E response \in Responses(PublishedManifests) :
          \E r \in {fetch_json(input.dom.link.href, response, console)} :
              /\ result' = [op |-> "fetch_json", ret |-> r.ret]
              /\ console' = r.console
    /\ pending' = pending \ {input.dom.link.href}
    /\ pc' = "fetched_json"
    /\ UNCHANGED <<input, logger, canonical_manifest, wpm, lookups>>

\* obtain_manifest goes on after its await, one turn later:
\* manifest_data.manifest_text = (what fetch_json returned);
\* manifest_data.base = link.href; return manifest_data
ObtainManifestDone ==
    /\ pc = "fetched_json"
    /\ input' = [input EXCEPT !.manifest_text = result.ret,
                              !.base = Str(input.dom.link.href)]
    /\ pc' = "start"
    /\ UNCHANGED <<logger, canonical_manifest, wpm, result, console, pending, lookups>>

\* get_manifest once obtain_manifest has returned:
\* const canonical_manifest = get_canonical_manifest(logger, manifest_data);
\* return get_wpm(logger, canonical_manifest,
\*                dom.window.document.URL !== manifest_data.base)
GetManifestConvert ==
    /\ pc = "start"
    /\ \E c \in {get_canonical_manifest(logger, input)} :
          \E r \in {IF c.thrown THEN [wpm |-> U, logger |-> c.logger, thrown |-> TRUE]
                    ELSE get_wpm(c.logger, c.ret, is_separate(input), U)} :
              /\ pc' = IF r.thrown THEN "failed" ELSE "done"
              /\ logger' = r.logger
              /\ canonical_manifest' = c.ret
              /\ wpm' = r.wpm
              /\ result' = [op |-> "get_manifest", thrown |-> r.thrown]
              /\ lookups' = IF r.thrown THEN U ELSE NewLookups
    /\ UNCHANGED <<input, console, pending>>

NextManifest ==
    \/ FetchHtml
    \/ FetchHtmlDone
    \/ ObtainManifest
    \/ FetchJsonDone
    \/ ObtainManifestDone
    \/ GetManifestConvert

SpecManifest == InitManifest /\ [][NextManifest]_vars

(***************************************************************************)
(* An instance of the class with the getters is built, its link            *)
(* collections are set and its derived links are read, in any order        *)
(***************************************************************************)
\* How often the instance is used after its construction
MaxAccess == 3

\* How often a field other than a link collection is assigned
MaxFields == 1

\* What a caller assigns to readingOrder, resources or links
LinkValues ==
    { Arr(<<O2("url", Str("report.html"), "rel", Str("accessibility-report"))>>),
      O2("url", Str("report.html"), "rel", Str("https://www.w3.org/ns/wp#accessibility-report")),
      Arr(<<O2("url", Str("doc.html"), "rel", Arr(<<Str("https://www.w3.org/ns/wp#cover"),
                                                   Str("contents")>>)),
            O2("url", Str("nav.html"), "rel", Str("privacy-policy"))>>),
      Str("doc.html"),
      O1("rel", Str("contents")),
      O1("url", Num(5)) }

\* The arguments of the constructor: a language, or none
InitLookup ==
    /\ pc = "start"
    /\ input \in {[base |-> Str(ManifestUrl), lang |-> lang] : lang \in {Str("en"), U}}
    /\ logger = NewLogger
    /\ canonical_manifest = U
    /\ wpm = U
    /\ result = U
    /\ console = <<>>
    /\ pending = {}
    /\ lookups = U

\* How often the instance has been used: assignments and reads
Uses(lk) == lk.assigned + lk.fields + lk.accesses

\* new WebPublicationManifest(logger, base, lang)
NewManifest ==
    /\ pc = "start"
    /\ \E r \in {new_WebPublicationManifest(logger, input.base, input.lang)} :
           /\ pc' = IF r.thrown THEN "failed" ELSE "done"
           /\ wpm' = r.wpm
           /\ result' = [op |-> "new", thrown |-> r.thrown]
           /\ lookups' = IF r.thrown THEN U ELSE NewLookups
    /\ UNCHANGED <<input, logger, canonical_manifest, console, pending>>

\* wpm[term] = value, the setter of a link collection, has run: when
\* initArray throws, the field keeps its value
Assigned(term, value, r) ==
    /\ wpm' = IF r.thrown THEN wpm ELSE [wpm EXCEPT ![term] = r.ret]
    /\ logger' = r.logger
    /\ result' = [op |-> term, value |-> value, thrown |-> r.thrown]
    /\ lookups' = [lookups EXCEPT !.assigned = @ + 1]
    /\ UNCHANGED <<pc, input, canonical_manifest, console, pending>>

SetReadingOrder ==
    /\ pc = "done" /\ Uses(lookups) < MaxAccess
    /\ \E value \in LinkValues :
           \E r \in {PublicationLink_initArray(logger, value, input.base, input.lang)} :
               Assigned("readingOrder", value, r)

SetResources ==
    /\ pc = "done" /\ Uses(lookups) < MaxAccess
    /\ \E value \in LinkValues :
           \E r \in {PublicationLink_initArray(logger, value, input.base, input.lang)} :
               Assigned("resources", value, r)

SetLinks ==
    /\ pc = "done" /\ Uses(lookups) < MaxAccess
    /\ \E value \in LinkValues :
           \E r \in {PublicationLink_initArray(logger, value, input.base, input.lang)} :
               Assigned("links", value, r)

\* What a caller assigns to a field other than a link collection
FieldValues(term) ==
    CASE term \in {"url", "id"} -> {Str("doc.html"), Num(5)}
      [] term = "type" -> {Str("Book")}
      [] term \in a11y_terms \cup {"accessModeSufficient"} ->
             {Str("bogus"), Arr(<<Str("visual"), Str("bogus")>>)}
      [] term \in {"accessibilitySummary", "name"} ->
             {O1("@language", Str("fr")), Str("Hi")}
      [] term \in contributor_roles ->
             {O1("@language", Str("fr")), Str("Jane Doe"),
              O2("name", Str("Jane Doe"), "@type", Str("Organization"))}
      [] term = "inLanguage" -> {Str("en_US"), Str("fr")}
      [] term = "inDirection" -> {Str("bogus"), Str("rtl")}
      [] term \in {"dateModifed", "datePublished"} -> {Str("bogus"), Str("2019-01-01")}
      [] term = "readingProgression" -> {Str("rtl"), Str("ltr")}
      [] term = "toc" -> {Null}

\* wpm[term] = value, the setter of a field other than a link collection:
\* when the setter throws, the field keeps its value
SetField ==
    /\ pc = "done" /\ Uses(lookups) < MaxAccess /\ lookups.fields < MaxFields
    /\ \E term \in manifest_getters \ link_terms :
           \E value \in FieldValues(term) :
               \E r \in {manifest_set(wpm, logger, term, value, input.base, input.lang)} :
                   /\ wpm' = r.wpm
                   /\ logger' = r.logger
                   /\ result' = [op |-> term, value |-> value, thrown |-> r.thrown]
    /\ lookups' = [lookups EXCEPT !.fields = @ + 1]
    /\ UNCHANGED <<pc, input, canonical_manifest, console, pending>>

\* the getter has run: what it returned, whether it searched, and the
\* fields it has set
Got(name, r) ==
    /\ result' = [op |-> name, ret |-> r.ret,
                  searched |-> r.lookups.searches[name] > lookups.searches[name]]
    /\ lookups' = r.lookups
    /\ UNCHANGED <<pc, input, logger, canonical_manifest, wpm, console, pending>>

AccessibilityReport ==
    /\ pc = "done" /\ Uses(lookups) < MaxAccess
    /\ \E r \in {accessibilityReport(wpm, lookups)} : Got("accessibilityReport", r)

PrivacyPolicy ==
    /\ pc = "done" /\ Uses(lookups) < MaxAccess
    /\ \E r \in {privacyPolicy(wpm, lookups)} : Got("privacyPolicy", r)

Cover ==
    /\ pc = "done" /\ Uses(lookups) < MaxAccess
    /\ \E r \in {cover(wpm, lookups)} : Got("cover", r)

TocReference ==
    /\ pc = "done" /\ Uses(lookups) < MaxAccess
    /\ \E r \in {toc_reference(wpm, lookups)} : Got("toc_reference", r)

NextLookup ==
    \/ NewManifest
    \/ SetReadingOrder
    \/ SetResources
    \/ SetLinks
    \/ SetField
    \/ AccessibilityReport
    \/ PrivacyPolicy
    \/ Cover
    \/ TocReference

SpecLookup == InitLookup /\ [][NextLookup]_vars

(***************************************************************************)
(* check_url is called again and again, with the one Logger or without     *)
(***************************************************************************)
Addresses ==
    { Str("doc.html"), Str("ftp://x.test/doc.html"), Str("https:doc.html"),
      Str("https://x.test:80/doc.html"), Str("https://x.test/doc.html"), Num(5) }

InitCheckUrl ==
    /\ pc = "check_url"
    /\ input = U
    /\ logger = NewLogger
    /\ canonical_manifest = U
    /\ wpm = U
    /\ result = U
    /\ console = <<>>
    /\ pending = {}
    /\ lookups = U

CheckUrl ==
    /\ pc = "check_url"
    /\ Len(logger.errors) + Len(logger.warnings) < MaxLog
    /\ \E address \in Addresses, has_logger \in BOOLEAN :
          \E r \in {check_url(address, logger, has_logger)} :
              /\ input' = [address |-> address, has_logger |-> has_logger, logger |-> logger]
              /\ logger' = r.logger
              /\ result' = [op |-> "check_url", ret |-> r.ret, thrown |-> r.thrown]
    /\ UNCHANGED <<pc, canonical_manifest, wpm, console, pending, lookups>>

NextCheckUrl == CheckUrl

SpecCheckUrl == InitCheckUrl /\ [][NextCheckUrl]_vars

(***************************************************************************)
(* canonicalize is applied to a raw manifest, and then to what it returned *)
(***************************************************************************)
NextCanonicalize == Canonicalize \/ CanonicalizeAgain

SpecCanonicalize == Init /\ [][NextCanonicalize]_vars

(***************************************************************************)
(* get_wpm on the keys of one canonical manifest in every order: the       *)
(* forEach of get_wpm follows Object.keys, the order the keys were put in  *)
(***************************************************************************)
\* The orders the keys of a manifest can be in
Orderings(keys) ==
    {[i \in DOMAIN keys |-> keys[p[i]]] :
        p \in {q \in [DOMAIN keys -> DOMAIN keys] :
                  \A i, j \in DOMAIN keys : q[i] = q[j] => i = j}}

\* A manifest on its own: no page, no default language or direction
InitOrder ==
    /\ Init
    /\ input # U /\ input.dom = U /\ input.lang = Null /\ input.dir = Null

\* get_wpm(logger, canonical_manifest, base, m_separate), the keys of the
\* canonical manifest in the order keys; what is no object has no keys to
\* order, and get_wpm throws on undefined
GetWpmOrdered ==
    /\ pc = "canonical"
    /\ \E keys \in IF canonical_manifest.t = "obj" THEN Orderings(canonical_manifest.k)
                    ELSE {<<>>} :
           \E r \in {get_wpm(logger,
                              IF canonical_manifest.t = "obj"
                              THEN Obj(keys, canonical_manifest.v) ELSE canonical_manifest,
                              input.base, input.m_separate)} :
               /\ pc' = IF r.thrown THEN "failed" ELSE "done"
               /\ logger' = r.logger
               /\ wpm' = r.wpm
               /\ result' = [op |-> "get_wpm", thrown |-> r.thrown, order |-> keys]
               /\ lookups' = IF r.thrown THEN U ELSE NewLookups
    /\ UNCHANGED <<input, canonical_manifest, console, pending>>

NextOrder == Canonicalize \/ GetWpmOrdered

SpecOrder == InitOrder /\ [][NextOrder]_vars

(***************************************************************************)
Count(seq, elem) == Cardinality({i \in 1..Len(seq) : seq[i] = elem})

\* wpm[term] read from outside: a name the class has no accessor for reads
\* as undefined
Attr(w, term) == IF term \in DOMAIN w THEN w[term] ELSE U

RawManifest == input.manifest_text.json

\* canonicalize has been called on its own, and perhaps get_wpm after it
ByStages == pc # "start" /\ result.op \in {"canonicalize", "get_wpm"}

\* C1: for every manifest text that parses, the conversion does not raise:
\* neither get_canonical_manifest nor get_wpm ends in an exception; only a
\* JSON parse failure aborts.
C1_OnlyParseFailureAborts == input.manifest_text.parses => pc # "failed"

\* C2: Logger.assert returns the condition it was given; a false condition
\* appends the message to errors under level error and to warnings under
\* level warning, and leaves the other sequence alone; a true condition
\* appends nothing; the call always returns.
C2_LoggerAssert ==
    pc = "logger" /\ result # U =>
        /\ result.ret = input.condition
        /\ Truthy(input.condition) => logger = result.before
        /\ ~Truthy(input.condition) /\ input.level = "error" =>
              /\ logger.errors = Append(result.before.errors, input.message)
              /\ logger.warnings = result.before.warnings
        /\ ~Truthy(input.condition) /\ input.level = "warning" =>
              /\ logger.warnings = Append(result.before.warnings, input.message)
              /\ logger.errors = result.before.errors

C2_Witness ==
    /\ pc = "logger" /\ result # U
    /\ input.condition = Bool(FALSE) /\ input.level = "error"
    /\ result.ret = Bool(FALSE)
    /\ Len(result.before.warnings) = 1
    /\ Len(logger.errors) = Len(result.before.errors) + 1

ScenarioInput ==
    /\ input.manifest_text = ManifestText(TRUE, ScenarioManifest)
    /\ input.base = Str(ManifestUrl)
    /\ input.lang = Str("en")

\* C3: the scenario manifest with base https://x.test/m.json and default
\* language en canonicalizes to the name, author and readingOrder of the
\* scenario, and the model built from it has author[0].name[0].value equal
\* to "Jane Doe".
C3_Scenario ==
    (ScenarioInput /\ ByStages) =>
        /\ pc # "failed"
        /\ pc \in {"canonical", "done"} =>
              /\ Get(canonical_manifest, "name") = Arr(<<LS("Hi", "en")>>)
              /\ Get(canonical_manifest, "author") =
                    Arr(<<O2("type", Arr(<<Str("Person")>>), "name", Arr(<<LS("Jane Doe", "en")>>))>>)
              /\ Get(canonical_manifest, "readingOrder") =
                    Arr(<<O2("type", Arr(<<Str("LinkedResource")>>),
                             "url", Str("https://x.test/doc.html"))>>)
        /\ pc = "done" => wpm["author"].a[1].name.a[1].value = Str("Jane Doe")

C3_Witness ==
    /\ ScenarioInput
    /\ pc = "done"
    /\ Len(wpm["author"].a) = 1
    /\ Len(wpm["readingOrder"].a) = 1

IsScalar(x) == x.t \in {"str", "num", "bool"}

\* The terms whose array elements no later step reshapes
plain_array_terms == Range(a11y_properties) \cup {"type", "rel"}

\* What array coercion owes for the value given for an array-valued term
Coerced(term, given, out) ==
    IF IsScalar(given)
    THEN /\ out.t = "arr" /\ Len(out.a) = 1
         /\ term \in plain_array_terms => out.a[1] = given
    ELSE IF given.t = "arr"
    THEN /\ out.t = "arr" /\ Len(out.a) = Len(given.a)
         /\ term \in plain_array_terms => out.a = given.a
    ELSE TRUE

\* The elements given for an entity or link term, as a sequence
GivenElements(given) == IF given.t = "arr" THEN given.a ELSE <<given>>

\* C4: every scalar given for an array-valued term, at the top level and
\* inside entity and link objects, comes out as a one-element array holding
\* it, and every array comes out with its length and order.
C4_ArrayCoercion ==
    pc = "canonical" /\ canonical_manifest.t = "obj" =>
        \A term \in Range(core_profile.array_values) \cap DOMAIN RawManifest.v :
            LET given == RawManifest.v[term]
                out == Get(canonical_manifest, term)
            IN  /\ Coerced(term, given, out)
                /\ term \in Range(core_profile.entity_values \o core_profile.link_values)
                   /\ out.t = "arr" /\ Len(out.a) = Len(GivenElements(given)) =>
                      \A i \in 1..Len(out.a) :
                          LET inner == GivenElements(given)[i]
                          IN  inner.t = "obj" =>
                                \A key \in Range(core_profile.array_values) \cap DOMAIN inner.v :
                                    Coerced(key, inner.v[key], Get(out.a[i], key))

\* C5: when steps 1 to 9 of canonicalize raise, canonicalize does not throw,
\* logs one error, and returns the manifest as far as it was built.
C5_PartialManifest ==
    pc = "canonical" /\ result.caught =>
        /\ ~result.thrown
        /\ Count(logger.errors, Msg("TypeError", U)) = 1
        /\ canonical_manifest = result.partial

\* The attributes of the model that hold sequences
array_attributes ==
    {"name", "accessModeSufficient"} \cup contributor_terms \cup a11y_terms \cup link_terms

\* C6: in a built model no array-valued attribute is an empty sequence, and
\* neither is the name of a contributor or of a link: an attribute with no
\* valid element is undefined.
C6_NoEmptyArrays ==
    pc = "done" =>
        \A term \in array_attributes :
            /\ wpm[term] # Arr(<<>>)
            /\ wpm[term].t = "arr" =>
                  \A i \in 1..Len(wpm[term].a) :
                      wpm[term].a[i].t \in {"Contributor", "LinkedResource"} =>
                          wpm[term].a[i].name # Arr(<<>>)

Allowed(term, item) == item.t = "str" /\ item.s \in allowed_terms(term)

\* C7: for each controlled-vocabulary field, the items of the allow-list are
\* kept in their order, every other item is dropped with one warning naming
\* it, and the field is undefined when nothing is kept; so accessMode
\* "invalid-term" gives undefined and one warning for "invalid-term".
C7_VocabularyFilter ==
    pc = "done" =>
        \A term \in a11y_terms \cap DOMAIN canonical_manifest.v :
            LET items == canonical_manifest.v[term].a
                kept == SelectSeq(items, LAMBDA item : Allowed(term, item))
            IN  /\ wpm[term] = IF kept = <<>> THEN U ELSE Arr(kept)
                /\ \A i \in 1..Len(items) :
                      ~Allowed(term, items[i]) =>
                          Count(logger.warnings, Msg(a11y_text(term), items[i])) = Count(items, items[i])

\* The default language canonicalize resolved, or undefined when there is none
ResolvedLanguage == OrUndefined(Get(canonical_manifest, "inLanguage"))

\* C8: a contributor given as a bare string X is, in the built model, one
\* Contributor of type ["Person"] whose name is the one localizable string
\* with value X and the resolved default language, if any.
C8_BareStringContributor ==
    pc = "done" =>
        \A term \in Range(creator_properties) \cap DOMAIN RawManifest.v :
            RawManifest.v[term].t = "str" =>
                LET contributors == Attr(wpm, term)
                IN  /\ contributors.t = "arr"
                    /\ Len(contributors.a) = 1
                    /\ contributors.a[1].type = Arr(<<Str("Person")>>)
                    /\ contributors.a[1].name.t = "arr"
                    /\ Len(contributors.a[1].name.a) = 1
                    /\ contributors.a[1].name.a[1].value = RawManifest.v[term]
                    /\ contributors.a[1].name.a[1].language = ResolvedLanguage

no_name_error == Msg("Invalid contributor: no name provided.", U)

Nameless(obj) == Get(obj, "name") = U

\* C9 as stated: a contributor object with no name is absent from what
\* Contributor.initArray returns, and building it appends exactly one
\* message to the errors and none to the warnings.
C9_NamelessOneMessage ==
    pc = "done" /\ Len(input.objs.a) = 1 /\ Nameless(input.objs.a[1]) =>
        /\ result.ret = Arr(<<>>)
        /\ Len(logger.errors) = 1
        /\ logger.warnings = <<>>

\* C9 amended: no contributor without a name is in what Contributor.initArray
\* returns; each of them appends exactly one "no name provided" error; and
\* when none of them has a url either, these are the only messages.
C9_NamelessDropped ==
    pc = "done" =>
        LET objs == input.objs.a
            nameless == {i \in 1..Len(objs) : Nameless(objs[i])}
        IN  /\ \A i \in 1..Len(result.ret.a) : result.ret.a[i].name # U
            /\ Len(result.ret.a) <= Len(objs) - Cardinality(nameless)
            /\ Count(logger.errors, no_name_error) = Cardinality(nameless)
            /\ (\A i \in 1..Len(objs) : i \in nameless /\ ~Truthy(Get(objs[i], "url"))) =>
                  /\ result.ret = Arr(<<>>)
                  /\ Len(logger.errors) = Len(objs)
                  /\ logger.warnings = <<>>

C9_Witness ==
    /\ pc = "done"
    /\ Len(input.objs.a) = 2
    /\ input.objs.a[1] = EmptyObj
    /\ ~Nameless(input.objs.a[2])
    /\ Len(result.ret.a) = 1
    /\ logger.errors = <<no_name_error>>
    /\ logger.warnings = <<>>

self_link_error == Msg("Manifest URL must not be part of a link", U)

\* C10: with the manifest in a separate file, a link whose url is the base
\* is not in what LinkedResource.initArray returns and is logged as an
\* error; with the manifest embedded, it is kept and no such error is
\* logged.
C10_SelfLink ==
    pc = "done" =>
        LET given == {i \in 1..Len(input.values.a) : Get(input.values.a[i], "url") = input.base}
            kept == {i \in 1..Len(result.ret.a) : result.ret.a[i].url = input.base}
        IN  IF input.m_separate.b
            THEN kept = {} /\ Count(logger.errors, self_link_error) = Cardinality(given)
            ELSE Cardinality(kept) = Cardinality(given) /\ Count(logger.errors, self_link_error) = 0

C10_Witness ==
    /\ pc = "done"
    /\ input.m_separate = Bool(TRUE)
    /\ Len(input.values.a) = 2
    /\ Get(input.values.a[1], "url") = input.base
    /\ Get(input.values.a[2], "url") = Str("https://x.test/doc.html")
    /\ Len(result.ret.a) = 1
    /\ self_link_error \in Range(logger.errors)

\* The links of the built model whose url is the given one
LinksTo(w, address) ==
    {<<term, i>> \in {"readingOrder", "resources", "links"} \X (1..4) :
        /\ Attr(w, term) # U
        /\ i <= Len(Attr(w, term).a)
        /\ Attr(w, term).a[i].url = address}

\* The raw manifest has a link to the manifest itself: to the file it was
\* fetched from, or to the page whose script element it is
LinksToItself ==
    IF input.dom.link.embedded THEN Get(RawManifest, "links") = Str("index.html")
    ELSE Get(RawManifest, "resources") = Str("m.json")

\* C11: the full conversion by get_manifest of a page whose manifest links
\* to itself ends with a model; when the manifest is a file of its own,
\* readingOrder, resources and links of the model hold no link whose url is
\* the URL of the manifest, and when the manifest is in a script element of
\* the page the model keeps such a link.
C11_NoSelfLink ==
    (pc \in {"done", "failed"} /\ result.op = "get_manifest" /\ input # U
        /\ input.manifest_text.parses /\ LinksToItself)
       => /\ wpm # U
          /\ IF input.dom.URL # input.base.s THEN LinksTo(wpm, input.base) = {}
             ELSE LinksTo(wpm, input.base) # {}

\* The contributor roles of the manifest
Roles ==
    {"author", "editor", "creator", "publisher", "artist", "colorist", "contributor",
     "illustrator", "inker", "letterer", "penciler", "readBy", "translator"}

\* A bare string, or an object with a name (and no address to check)
ValidContributor(v) ==
    \/ v.t = "str" /\ v.s # ""
    \/ /\ v.t = "obj"
       /\ Get(v, "name").t = "str" /\ Get(v, "name").s # ""
       /\ Get(v, "url") = U

\* The manifest given has the one key term
OnlyKey(term) ==
    /\ pc \notin {"start", "canonical"}
    /\ result.op = "get_wpm"
    /\ input.manifest_text.parses
    /\ RawManifest.k = <<term>>

\* C12: a manifest that gives one of the contributor roles a valid
\* contributor (a bare string or an object with a name) is converted, and
\* the model exposes the contributor under the accessor of that role.
C12_RoleAccessors ==
    \A role \in Roles :
        (OnlyKey(role) /\ ValidContributor(Get(RawManifest, role)))
            => /\ pc = "done"
               /\ Attr(wpm, role).t = "arr"
               /\ Len(Attr(wpm, role).a) = 1

\* The roles documented as sequence<Person>, by their manifest keys
PersonRoles ==
    {"artist", "colorist", "editor", "illustrator", "inker", "letterer", "penciler", "readBy"}

\* A named contributor whose explicit type is Organization only
NamedOrganization(v) ==
    /\ v.t = "obj"
    /\ Get(v, "name").t = "str" /\ Get(v, "name").s # ""
    /\ Get(v, "type") \in {Str("Organization"), Arr(<<Str("Organization")>>)}

\* The errors that say a contributor is no Person
PersonOnlyErrors(log) ==
    {i \in 1..Len(log.errors) :
        log.errors[i].text = "Only a \"Person\" is acceptable in this position"}

\* C13: for a role documented as a sequence of Person, a named contributor
\* whose explicit type is Organization without Person is absent from the
\* model and one error about it is logged.
C13_PersonOnly ==
    \A role \in PersonRoles :
        (OnlyKey(role) /\ NamedOrganization(Get(RawManifest, role)))
            => /\ pc = "done"
               /\ Attr(wpm, role) \in {U, Arr(<<>>)}
               /\ Cardinality(PersonOnlyErrors(logger)) = 1

\* C14: the readingProgression of the model is ltr or rtl: ltr when the
\* manifest gives none, and the value given when that is "ltr" or "rtl".
C14_ReadingProgression ==
    /\ pc = "done" =>
          Attr(wpm, "readingProgression") \in
              {Sym("ProgressionDirection", "ltr"), Sym("ProgressionDirection", "rtl")}
    /\ (pc = "done" /\ Get(RawManifest, "readingProgression") = U) =>
          Attr(wpm, "readingProgression") = Sym("ProgressionDirection", "ltr")
    /\ \A given \in {"ltr", "rtl"} :
          (OnlyKey("readingProgression") /\ Get(RawManifest, "readingProgression") = Str(given))
              => /\ pc = "done"
                 /\ Attr(wpm, "readingProgression") = Sym("ProgressionDirection", given)

\* The links of the scenario: the one link of links is report.html under
\* the base, with the relation accessibility-report, and no link of
\* readingOrder or resources has that relation
ScenarioLinks ==
    /\ wpm["links"] # U /\ Len(wpm["links"].a) = 1
    /\ wpm["links"].a[1].url = Str("https://x.test/report.html")
    /\ wpm["links"].a[1].rel = Arr(<<Str("accessibility-report")>>)
    /\ find_link(wpm["readingOrder"], "accessibility-report") = U
    /\ find_link(wpm["resources"], "accessibility-report") = U

\* C15: accessibilityReport, when it searches, returns the first link of
\* readingOrder, then resources, then links whose rel has the relation
\* accessibility-report, and no value if there is none; for a model whose
\* links is [{"url":"report.html","rel":"accessibility-report"}] it returns
\* the link with the absolute url of report.html.
C15_AccessibilityReport ==
    (pc = "done" /\ result.op = "accessibilityReport" /\ result.searched) =>
        /\ result.ret = find_in_order(wpm, "accessibility-report")
        /\ ScenarioLinks => /\ result.ret # U
                            /\ result.ret.url = Str("https://x.test/report.html")

\* C16: each derived lookup (accessibilityReport, privacyPolicy, cover, the
\* TOC reference) searches the link collections at most once per model,
\* however often it is read.
C16_SearchedOnce ==
    pc = "done" => \A name \in LookupNames : lookups.searches[name] <= 1

\* The manifest text is obtained: manifest_data holds a text, and for a
\* manifest in a file of its own the text is the one fetch_json returned
\* and base is the URL it was fetched from
TextObtained ==
    /\ input.manifest_text.t = "text"
    /\ ~input.dom.link.embedded
          => /\ result = [op |-> "fetch_json", ret |-> input.manifest_text]
             /\ input.base = Str(input.dom.link.href)

FailedFetches ==
    {i \in 1..Len(console) : console[i].text \in {"HTML parsing error in", "JSON fetch error in"}}

\* C18: when the fetch of the primary entry page or of the manifest text
\* has failed, the conversion still ends with a model, and a warning about
\* it is in the diagnostics log.
C18_FetchFailure ==
    (pc \in {"done", "failed"} /\ FailedFetches # {})
        => wpm # U /\ Len(logger.warnings) >= 1

\* What the last call of check_url has added to the log
Logged(level) ==
    IF level = "error" THEN SubSeq(logger.errors, Len(input.logger.errors) + 1, Len(logger.errors))
    ELSE SubSeq(logger.warnings, Len(input.logger.warnings) + 1, Len(logger.warnings))

\* The four failures of an address
NoScheme(address) == address.t = "str" /\ url_parse(address.s).protocol = ""
OtherScheme(address) ==
    address.t = "str" /\ url_parse(address.s).protocol \notin {"", "http:", "https:"}
NotWebUri(address) ==
    address.t = "str" /\ ~NoScheme(address) /\ ~OtherScheme(address) /\ ~isWebUri(address.s)
Unusable(address) == address.t # "str" \/ NoScheme(address) \/ OtherScheme(address) \/ NotWebUri(address)
LowPort(address) ==
    ~Unusable(address) /\ url_parse(address.s).hasPort /\ url_parse(address.s).port <= 1024

\* C20: check_url with a log never throws: for an address without scheme,
\* with a scheme other than http or https, or that is no well-formed web
\* URI it logs one error and returns null; for a port of 1024 or less it
\* logs one warning and returns the URL; without a log each of the four
\* throws.
C20_CheckUrl ==
    (pc = "check_url" /\ result # U) =>
        IF input.has_logger
        THEN /\ ~result.thrown
             /\ Unusable(input.address) =>
                   result.ret = Null /\ Len(Logged("error")) = 1 /\ Logged("warning") = <<>>
             /\ LowPort(input.address) =>
                   result.ret = input.address /\ Len(Logged("warning")) = 1
                   /\ Logged("error") = <<>>
        ELSE (Unusable(input.address) \/ LowPort(input.address)) =>
                   result.thrown /\ logger = input.logger

\* C19: when the manifest text is not valid JSON, get_canonical_manifest
\* raises an error to its caller, and neither a canonical manifest nor a
\* model is produced.
C19_InvalidJson ==
    (pc # "start" /\ ~input.manifest_text.parses) =>
        /\ pc = "failed"
        /\ result.op = "get_canonical_manifest" /\ result.thrown
        /\ canonical_manifest = U
        /\ wpm = U

C19_Witness ==
    /\ pc = "failed"
    /\ ~input.manifest_text.parses
    /\ result.op = "get_canonical_manifest" /\ result.thrown
    /\ canonical_manifest = U /\ wpm = U
    /\ input.dom # U

\* The errors of the log with the given text
ErrorsSaying(texts) == {i \in 1..Len(logger.errors) : logger.errors[i].text \in texts}

\* C21: when the manifest text is not valid JSON and get_canonical_manifest
\* raises, the JSON parsing error message is in the errors of the log.
C21_ParseErrorLogged ==
    (pc = "failed" /\ result.op = "get_canonical_manifest" /\ ~input.manifest_text.parses)
        => ErrorsSaying({"(JSON parsing error)"}) # {}

\* The raw manifest has the two required contexts first in its @context array
ContextsGiven ==
    LET context == Get(RawManifest, "@context")
    IN  /\ context.t = "arr"
        /\ \A i \in 1..Len(required_contexts) :
              i <= Len(context.a) /\ context.a[i] = Str(required_contexts[i])

\* C22: a raw manifest without an @context array, or whose first two
\* @context entries are not the two required contexts in their order, gets
\* a diagnostic in the log and the conversion goes on; a missing
\* publication type is logged as well and does not stop the conversion.
C22_ContextAndType ==
    (pc # "start" /\ input.manifest_text.parses) =>
        /\ result.op = "get_canonical_manifest" => ~result.thrown
        /\ ~ContextsGiven =>
              ErrorsSaying({"No context has been provided", "Context references are invalid"}) # {}
              \/ \E i \in 1..Len(logger.warnings) :
                    logger.warnings[i].text \in {"No context has been provided",
                                                 "Context references are invalid"}
        /\ ~Truthy(Get(RawManifest, "type")) =>
              ErrorsSaying({"No publication type has been provided"}) # {}

\* C23: canonicalization is idempotent: with the same base, defaults and
\* profile, canonicalize applied to what canonicalize returned returns an
\* equal object (compared as JSON).
C23_Idempotent ==
    pc = "again" => JsonClone(result.ret) = JsonClone(canonical_manifest)

\* The first canonicalization clears an invalid inLanguage that the second
\* one fills with the valid default language
ClearedLanguage ==
    /\ Truthy(Get(RawManifest, "inLanguage"))
    /\ ~bcppattern_test(Get(RawManifest, "inLanguage"))
    /\ Truthy(input.lang) /\ bcppattern_test(input.lang)

\* C23 (amended): with the same base, defaults and profile, canonicalize
\* applied to what canonicalize returned returns an equal object (compared
\* as JSON), unless the manifest gave an invalid inLanguage and a valid
\* default language is supplied.
C23_IdempotentUnlessCleared ==
    (pc = "again" /\ ~ClearedLanguage) => JsonClone(result.ret) = JsonClone(canonical_manifest)

C23_Witness ==
    /\ pc = "again"
    /\ ~ClearedLanguage
    /\ Get(RawManifest, "author") = Str("Jane Doe")
    /\ input.dom # U
    /\ canonical_manifest # U
    /\ canonical_manifest # RawManifest
    /\ Len(Get(canonical_manifest, "readingOrder").a) = 1
    /\ result.ret = canonical_manifest

\* The inLanguage canonicalize validates: the one given, or the default
EffectiveLanguage ==
    IF Truthy(Get(RawManifest, "inLanguage")) THEN Get(RawManifest, "inLanguage")
    ELSE IF Truthy(input.lang) THEN input.lang ELSE U

\* What the canonical manifest has where the raw one has bare strings: for
\* a raw value and its canonical form, the canonical items of the strings
Bare(given, out) ==
    IF given.t = "str" /\ Truthy(given) THEN {IF out.t = "arr" THEN out.a[1] ELSE out}
    ELSE IF given.t = "arr" /\ out.t = "arr"
    THEN {out.a[j] : j \in {n \in 1..Len(given.a) : given.a[n].t = "str"}}
    ELSE {}

\* the same for the texts of one object
BareTexts(given, out) ==
    UNION {Bare(Get(given, prop), Get(out, prop)) : prop \in Range(core_profile.local_string_values)}

\* and for the entities and links of the manifest: a bare string entity
\* has its name wrapped, an object has its texts wrapped
BareIn(term) ==
    LET given == GivenElements(Get(RawManifest, term))
        out == Get(canonical_manifest, term)
    IN  IF ~Truthy(Get(RawManifest, term)) \/ out.t # "arr" THEN {}
        ELSE UNION {IF given[n].t = "str"
                    THEN IF term \in Range(core_profile.entity_values)
                         THEN Bare(given[n], Get(out.a[n], "name")) ELSE {}
                    ELSE BareTexts(given[n], out.a[n]) : n \in 1..Len(given)}

WrappedBareStrings ==
    BareTexts(RawManifest, canonical_manifest)
    \cup UNION {BareIn(term) : term \in Range(core_profile.entity_values)
                                     \cup Range(core_profile.link_values)}

\* C25: if the inLanguage given, or backfilled from the default, does not
\* match the language-tag grammar, canonicalize logs exactly one warning,
\* the canonical manifest has no inLanguage, and no wrapped bare string has
\* a language; if it matches, every wrapped bare string has that language.
C25_Language ==
    (pc = "canonical" /\ EffectiveLanguage # U) =>
        IF bcppattern_test(EffectiveLanguage)
        THEN /\ logger.warnings = <<>>
             /\ canonical_manifest # U =>
                   /\ Get(canonical_manifest, "inLanguage") = EffectiveLanguage
                   /\ \A w \in WrappedBareStrings :
                         w.t = "obj" /\ Get(w, "language") = EffectiveLanguage
        ELSE /\ Len(logger.warnings) = 1
             /\ logger.warnings[1].text = "is not a valid language tag"
             /\ canonical_manifest # U =>
                   /\ Get(canonical_manifest, "inLanguage") = U
                   /\ \A w \in WrappedBareStrings :
                         w.t = "obj" /\ "language" \notin DOMAIN w.v

C25_Witness ==
    /\ pc = "canonical"
    /\ Get(RawManifest, "inLanguage") = Str("en_US")
    /\ input.lang = Str("en")
    /\ Len(logger.warnings) = 1
    /\ Get(RawManifest, "author") = Str("Jane Doe")
    /\ Cardinality(WrappedBareStrings) = 1
    /\ \A w \in WrappedBareStrings : w = O1("value", Str("Jane Doe"))


\* The keys the raw manifest has
RawKeys == {RawManifest.k[i] : i \in DOMAIN RawManifest.k}

\* The reading order canonicalize synthesizes from the primary page
PageReadingOrder ==
    Arr(<<Obj(<<"url", "type">>,
              ("url" :> Str(input.dom.URL)) @@ ("type" :> Arr(<<Str("LinkedResource")>>)))>>)

\* C26: when the raw manifest has no readingOrder, the canonical manifest's
\* readingOrder is, with a document, the one-entry array whose entry is a
\* link object of type ["LinkedResource"] and of url the page's own URL,
\* and without a document there is no readingOrder at all.
C26_DefaultReadingOrder ==
    (pc = "canonical" /\ canonical_manifest # U /\ "readingOrder" \notin RawKeys)
        => Get(canonical_manifest, "readingOrder")
               = (IF input.dom # U THEN PageReadingOrder ELSE U)

C26_Witness ==
    /\ pc = "canonical" /\ canonical_manifest # U
    /\ "readingOrder" \notin RawKeys
    /\ input.dom # U
    /\ Get(canonical_manifest, "readingOrder") = PageReadingOrder
    /\ Len(Get(canonical_manifest, "readingOrder").a) = 1


\* The keys get_wpm passes over: @context, and the terms t for which the
\* instance has no own property _t (toc is not one of them: _toc is an own
\* property, and wpm.toc = value is run)
IgnoredKey(term) == term = "@context" \/ term \notin manifest_terms

\* The manifest without one of its keys
WithoutKey(o, key) ==
    Obj(SelectSeq(o.k, LAMBDA x : x # key), [x \in DOMAIN o.v \ {key} |-> o.v[x]])

\* What two outcomes of get_wpm have in common when they agree on every
\* field of the model, on both logs and on whether they threw
SameModel(a, b) ==
    /\ a.thrown = b.thrown
    /\ a.logger = b.logger
    /\ ~a.thrown => \A f \in manifest_terms : a.wpm[f] = b.wpm[f]

\* C27: for every key of the canonical manifest that is @context or that
\* the model has no field for, get_wpm gives the model fields (toc among
\* them) and the two logs it gives for the manifest without that key: the
\* key changes nothing.
C27_IgnoredKeys ==
    [][(pc = "canonical" /\ canonical_manifest.t = "obj")
          => \A i \in DOMAIN canonical_manifest.k :
                 IgnoredKey(canonical_manifest.k[i])
                     => SameModel([wpm |-> wpm', logger |-> logger', thrown |-> result'.thrown],
                                  get_wpm(logger, WithoutKey(canonical_manifest, canonical_manifest.k[i]),
                                          input.base, input.m_separate))]_vars

C27_Witness ==
    /\ pc = "done" /\ result.op = "get_wpm"
    /\ \E i, j \in DOMAIN canonical_manifest.k :
           /\ canonical_manifest.k[i] = "@context"
           /\ canonical_manifest.k[j] \in {"custom", "readBy"}
    /\ \E f \in manifest_terms : wpm[f] # NewWpm[f]


\* C28: whatever the order of the keys of the canonical manifest, get_wpm
\* gives the model that it gives for the keys in the manifest's own order:
\* every field has the same value, so any two orders agree on every field.
C28_OrderIndependent ==
    [][(pc = "canonical" /\ canonical_manifest.t = "obj")
          => LET agree(r) ==
                     /\ result'.thrown = r.thrown
                     /\ ~r.thrown => \A f \in manifest_terms : wpm'[f] = r.wpm[f]
             IN  agree(get_wpm(logger, canonical_manifest, input.base, input.m_separate))]_vars

C28_Witness ==
    /\ pc = "done" /\ result.op = "get_wpm"
    /\ result.order # canonical_manifest.k
    /\ \E f, g \in manifest_terms \ {"toc"} :
           /\ f # g
           /\ wpm[f] # NewWpm[f]
           /\ wpm[g] # NewWpm[g]


\* C29: every contributor in what Contributor.initArray returns, which is
\* what the setter of a role keeps, has at least one name; a contributor
\* whose name entries all lack a value is not among them.
C29_NamedContributors ==
    (pc = "done" /\ result.op = "Contributor.initArray")
        => \A i \in 1..Len(result.ret.a) :
               /\ result.ret.a[i].name # U
               /\ Len(result.ret.a[i].name.a) >= 1


\* The localizable strings of a sequence of them, of one of them, or of none
StringsOf(x) ==
    IF x = U THEN {}
    ELSE IF x.t = "arr" THEN {x.a[i] : i \in 1..Len(x.a)}
    ELSE {x}

\* The localizable strings the model gives access to: its name, its
\* accessibilitySummary, the names of its contributors, the names and the
\* descriptions of its links
ModelStrings ==
    StringsOf(wpm["name"]) \cup StringsOf(wpm["accessibilitySummary"])
        \cup UNION {StringsOf(c.name) : c \in UNION {StringsOf(wpm[role]) : role \in contributor_terms}}
        \cup UNION {StringsOf(l.name) \cup StringsOf(l.description) :
                        l \in UNION {StringsOf(wpm[term]) : term \in link_terms}}

\* C30: every localizable string reachable from the model get_wpm returns
\* has a value.
C30_StringsHaveValues ==
    (pc = "done" /\ result.op = "get_wpm") => \A string \in ModelStrings : string.value # U

=============================================================================
